---- MODULE Spec2Model ----
(***************************************************************************)
(* Model of the DocConform review backend (src/reviews): the rule-based    *)
(* term extractor, the value normalizer, the validation engine and the     *)
(* document-processing run of the review view set.                         *)
(*                                                                         *)
(* A Python string is a sequence of characters; a character is a one       *)
(* character TLA+ string.  Offsets into a string are kept 0-based where    *)
(* the source keeps them (match.start(), page ranges).  Floats that the    *)
(* source only adds, compares and clamps (confidences) are integers in     *)
(* hundredths.                                                             *)
(***************************************************************************)
EXTENDS Integers, Sequences, FiniteSets, TLC

VARIABLES
  pages,            \* extract_terms_from_text: the page list passed in
  source,           \* extract_terms_from_text: the source tag passed in
  rules,            \* extract_terms_from_text: the rule catalog passed in
  extracted,        \* the list returned by the call, NotCalled before it
  verify_key,       \* verify_term_in_document: the term_key passed in
  expected_value,   \* verify_term_in_document: the expected value passed in
  verified,         \* the result of verify_term_in_document, Pending before the call
  approved_terms,   \* validate_terms: the approved term list passed in
  executed_terms,   \* validate_terms: the executed term list passed in
  issues,           \* the result of validate_terms, Pending before the call
  consistency,      \* the source and result of check_internal_consistency on
                    \* one of the two lists, Pending before the call
  approved_value,   \* _values_match: the approved_val passed in
  executed_value,   \* _values_match: the executed_val passed in
  comparison,       \* _values_match: the comparison_type passed in
  values_matched,   \* the result of _values_match, Pending before the call
  swapped_matched,  \* the result of _values_match with the two values
                    \* exchanged, Pending before that call
  value_key,        \* normalize_term_value: the key passed in
  raw_value,        \* normalize_term_value: the value passed in
  normalized_value, \* the result of normalize_term_value, Pending before the call
  renormalized_value, \* the result of normalize_term_value on the string that
                    \* the first call returned, Pending before that call
  basis_points,     \* the pair returned by normalize_basis_points(raw_value),
                    \* Pending before the call
  review,           \* the Review row of the database
  documents,        \* the uploaded files of the review, as storage holds them
  pdfplumber,       \* whether the pdfplumber package could be imported
  term_rows,        \* the ExtractedTerm rows of the review, in creation order
  issue_rows,       \* the Issue rows of the review, in creation order
  audit_log,        \* the AuditEvent rows of the review, in creation order
  requests          \* the process requests: position, local objects, response

extract_vars ==
  <<pages, source, rules, extracted, verify_key, expected_value, verified>>

match_vars ==
  <<approved_value, executed_value, comparison, values_matched, swapped_matched>>

validate_vars == <<approved_terms, executed_terms, issues, consistency, match_vars>>

normalize_vars ==
  <<value_key, raw_value, normalized_value, renormalized_value, basis_points>>

process_vars ==
  <<review, documents, pdfplumber, term_rows, issue_rows, audit_log, requests>>

vars == <<extract_vars, validate_vars, normalize_vars, process_vars>>

NotCalled == "not called"

Pending == [pending |-> TRUE]

\* The parts of the state that a specification of other calls leaves alone.
IdleExtract ==
  /\ pages = <<>> /\ source = "EXECUTED" /\ rules = <<>> /\ extracted = NotCalled
  /\ verify_key = "" /\ expected_value = <<>> /\ verified = Pending

IdleMatch ==
  approved_value = <<>> /\ executed_value = <<>> /\ comparison = "exact"
    /\ values_matched = Pending /\ swapped_matched = Pending

IdleValidate ==
  /\ approved_terms = <<>> /\ executed_terms = <<>> /\ issues = Pending /\ consistency = Pending
  /\ IdleMatch

IdleNormalize ==
  /\ value_key = <<>> /\ raw_value = <<>>
  /\ normalized_value = Pending /\ renormalized_value = Pending
  /\ basis_points = Pending

IdleProcess ==
  /\ review = <<>> /\ documents = <<>> /\ pdfplumber = FALSE
  /\ term_rows = <<>> /\ issue_rows = <<>> /\ audit_log = <<>> /\ requests = <<>>

(***************************************************************************)
(* Characters and the str methods the source uses.                         *)
(***************************************************************************)
UpperLetters ==
  <<"A","B","C","D","E","F","G","H","I","J","K","L","M",
    "N","O","P","Q","R","S","T","U","V","W","X","Y","Z">>

LowerLetters ==
  <<"a","b","c","d","e","f","g","h","i","j","k","l","m",
    "n","o","p","q","r","s","t","u","v","w","x","y","z">>

UpperSet == {UpperLetters[i] : i \in 1..26}

LowerSet == {LowerLetters[i] : i \in 1..26}

Digits == {"0","1","2","3","4","5","6","7","8","9"}

\* What str.strip(), str.split() and the regex class \s treat as blank.
Whitespace == {" ", "\n", "\t"}

\* U+017F LATIN SMALL LETTER LONG S: lower() leaves it alone, upper() gives
\* "S", and a regex compiled with re.IGNORECASE matches it against "s".
LongS == "U+017F"

ToLowerChar == [c \in UpperSet |-> LowerLetters[CHOOSE i \in 1..26 : UpperLetters[i] = c]]

ToUpperChar == [c \in LowerSet |-> UpperLetters[CHOOSE i \in 1..26 : LowerLetters[i] = c]]

lower_char(c) == IF c \in UpperSet THEN ToLowerChar[c] ELSE c

upper_char(c) == IF c \in LowerSet THEN ToUpperChar[c] ELSE IF c = LongS THEN "S" ELSE c

\* Case folding of re.IGNORECASE: two characters match when they fold alike.
fold_char(c) == IF c = LongS THEN "s" ELSE lower_char(c)

lower(s) == [i \in 1..Len(s) |-> lower_char(s[i])]

upper(s) == [i \in 1..Len(s) |-> upper_char(s[i])]

fold(s) == [i \in 1..Len(s) |-> fold_char(s[i])]

Min(a, b) == IF a <= b THEN a ELSE b

Max(a, b) == IF a >= b THEN a ELSE b

RECURSIVE lstrip(_)
lstrip(s) ==
  IF s # <<>> /\ Head(s) \in Whitespace THEN lstrip(Tail(s)) ELSE s

RECURSIVE rstrip(_)
rstrip(s) ==
  IF s # <<>> /\ s[Len(s)] \in Whitespace
    THEN rstrip(SubSeq(s, 1, Len(s) - 1))
    ELSE s

strip(s) == rstrip(lstrip(s))

\* s[i:j] of Python, 0-based and half-open, for 0 <= i <= j <= len(s).
Slice(s, i, j) == SubSeq(s, i + 1, j)

\* lit occurs in s at the 0-based offset pos.
StartsAt(s, pos, lit) ==
  /\ pos + Len(lit) <= Len(s)
  /\ \A j \in 1..Len(lit) : s[pos + j] = lit[j]

\* sub in s
Contains(s, sub) == \E pos \in 0..(Len(s) - Len(sub)) : StartsAt(s, pos, sub)

\* s.replace(old, new), old not empty: left to right, non-overlapping.
RECURSIVE replace_from(_, _, _, _)
replace_from(s, pos, old, new) ==
  IF pos >= Len(s) THEN <<>>
  ELSE IF StartsAt(s, pos, old)
    THEN new \o replace_from(s, pos + Len(old), old, new)
    ELSE <<s[pos + 1]>> \o replace_from(s, pos + 1, old, new)

replace(s, old, new) == replace_from(s, 0, old, new)

\* s.split(): the maximal runs of non-blank characters, in order.
RECURSIVE split_from(_, _, _)
split_from(s, pos, word) ==
  IF pos >= Len(s) THEN (IF word = <<>> THEN <<>> ELSE <<word>>)
  ELSE IF s[pos + 1] \in Whitespace
    THEN (IF word = <<>> THEN <<>> ELSE <<word>>) \o split_from(s, pos + 1, <<>>)
    ELSE split_from(s, pos + 1, Append(word, s[pos + 1]))

split(s) == split_from(s, 0, <<>>)

\* sep.join(parts)
RECURSIVE join(_, _)
join(sep, parts) ==
  IF parts = <<>> THEN <<>>
  ELSE IF Len(parts) = 1 THEN parts[1]
  ELSE parts[1] \o sep \o join(sep, Tail(parts))

\* str(n) for a natural number n.
DigitChars == <<"0","1","2","3","4","5","6","7","8","9">>

RECURSIVE str_of_nat(_)
str_of_nat(n) ==
  IF n < 10 THEN <<DigitChars[n + 1]>>
  ELSE str_of_nat(n \div 10) \o <<DigitChars[(n % 10) + 1]>>

DigitValue(c) == CHOOSE d \in 0..9 : DigitChars[d + 1] = c

\* int() of a string of digits, 0 for the empty string.
RECURSIVE nat_of(_)
nat_of(digits) ==
  IF digits = <<>> THEN 0
  ELSE 10 * nat_of(SubSeq(digits, 1, Len(digits) - 1)) + DigitValue(digits[Len(digits)])

RECURSIVE Pow10(_)
Pow10(n) == IF n = 0 THEN 1 ELSE 10 * Pow10(n - 1)

(***************************************************************************)
(* services/term_extractor.py                                              *)
(*                                                                         *)
(* A compiled pattern is a literal with capturing groups:                  *)
(*   [lit, icase, groups] where groups[g] = <<lo, hi>> is the part of the  *)
(* literal (1-based, inclusive) that group g captures.  What the extractor *)
(* reads of a match is kept: start(), end(), group(0), lastindex (0 for    *)
(* None: the pattern has no group) and the text of every group.            *)
(***************************************************************************)
MatchesAt(pattern, text, pos) ==
  /\ pos + Len(pattern.lit) <= Len(text)
  /\ \A j \in 1..Len(pattern.lit) :
       IF pattern.icase
         THEN fold_char(text[pos + j]) = fold_char(pattern.lit[j])
         ELSE text[pos + j] = pattern.lit[j]

MatchAt(pattern, text, pos) ==
  [ start     |-> pos,
    end       |-> pos + Len(pattern.lit),
    group0    |-> Slice(text, pos, pos + Len(pattern.lit)),
    lastindex |-> Len(pattern.groups),
    groups    |-> [g \in 1..Len(pattern.groups) |->
                     Slice(text, pos + pattern.groups[g][1] - 1,
                                 pos + pattern.groups[g][2])] ]

\* pattern.finditer(text): the non-overlapping matches, left to right.
RECURSIVE finditer_from(_, _, _)
finditer_from(pattern, text, pos) ==
  IF pos + Len(pattern.lit) > Len(text) THEN <<>>
  ELSE IF MatchesAt(pattern, text, pos)
    THEN <<MatchAt(pattern, text, pos)>>
           \o finditer_from(pattern, text, pos + Len(pattern.lit))
    ELSE finditer_from(pattern, text, pos + 1)

finditer(pattern, text) == finditer_from(pattern, text, 0)

\* The snippet of evidence around a match.
context_chars == 100

Ellipsis == <<".", ".", ".">>

_get_context_snippet(text, match_start, match_end) ==
  LET start   == Max(0, match_start - context_chars)
      end     == Min(Len(text), match_end + context_chars)
      snippet == join(<<" ">>, split(Slice(text, start, end)))
      left    == IF start > 0 THEN Ellipsis \o snippet ELSE snippet
  IN  IF end < Len(text) THEN left \o Ellipsis ELSE left

\* The first page range holding the position, page 1 when none does.
RECURSIVE find_page_from(_, _, _)
find_page_from(positions, i, position) ==
  IF i > Len(positions) THEN 1
  ELSE IF positions[i].start <= position /\ position < positions[i].end
    THEN positions[i].page
    ELSE find_page_from(positions, i + 1, position)

\* The lookup with page ranges closed at their end.
RECURSIVE find_page_from_closed(_, _, _)
find_page_from_closed(positions, i, position) ==
  IF i > Len(positions) THEN 1
  ELSE IF positions[i].start <= position /\ position <= positions[i].end
    THEN positions[i].page
    ELSE find_page_from_closed(positions, i + 1, position)

_find_page_for_position_closed(positions, position) ==
  find_page_from_closed(positions, 1, position)

_find_page_for_position(positions, position) ==
  find_page_from(positions, 1, position)

PageSeparator == <<"\n", "\n">>

\* combined_text after the first n pages.
RECURSIVE combined_upto(_, _)
combined_upto(pgs, n) ==
  IF n = 0 THEN <<>>
  ELSE combined_upto(pgs, n - 1) \o pgs[n].text \o PageSeparator

combined_text(pgs) == combined_upto(pgs, Len(pgs))

page_positions(pgs) ==
  [i \in 1..Len(pgs) |->
     [ page  |-> pgs[i].page,
       text  |-> pgs[i].text,
       start |-> Len(combined_upto(pgs, i - 1)),
       end   |-> Len(combined_upto(pgs, i)) ]]

\* Confidence of one match, in hundredths.
LongMatch == 50

LengthBonus == 5

FallbackPenalty == 10

match_confidence(rule, match) ==
  LET base     == rule.confidence_base
      boosted  == IF Len(match.group0) > LongMatch THEN base + LengthBonus ELSE base
      reduced  == IF match.lastindex # 0 /\ match.lastindex < rule.extract_group
                    THEN boosted - FallbackPenalty
                    ELSE boosted
  IN  Min(100, Max(0, reduced))

\* All matches of a rule in the order the loops visit them: pattern by
\* pattern, and within a pattern by position.
RECURSIVE rule_matches_from(_, _, _)
rule_matches_from(rule, text, p) ==
  IF p > Len(rule.patterns) THEN <<>>
  ELSE finditer(rule.patterns[p], text) \o rule_matches_from(rule, text, p + 1)

rule_matches(rule, text) == rule_matches_from(rule, text, 1)

NoMatch == [none |-> TRUE]

\* The comparison that also lets an equal confidence replace the best match.
better_confidence_or_equal(confidence, best_confidence) == confidence >= best_confidence

\* A candidate replaces the best match so far when this holds.
better_confidence(confidence, best_confidence) == confidence > best_confidence

\* The loops over patterns and matches: best_match and best_confidence
\* after the matches from index i on.
RECURSIVE best_from(_, _, _, _, _)
best_from(rule, matches, i, best_match, best_confidence) ==
  IF i > Len(matches) THEN [match |-> best_match, confidence |-> best_confidence]
  ELSE LET confidence == match_confidence(rule, matches[i])
       IN  IF better_confidence(confidence, best_confidence)
             THEN best_from(rule, matches, i + 1, matches[i], confidence)
             ELSE best_from(rule, matches, i + 1, best_match, best_confidence)

\* A rule without a match answers with the text of its first pattern.
rule_best_guessed(rule, text) ==
  LET best == best_from(rule, rule_matches(rule, text), 1, NoMatch, 0)
  IN  IF best.match # NoMatch \/ rule.patterns = <<>> THEN best
      ELSE [ match |-> [ start |-> 0, end |-> 0, group0 |-> rule.patterns[1].lit,
                         lastindex |-> 0, groups |-> <<>> ],
             confidence |-> rule.confidence_base ]

rule_best(rule, text) == best_from(rule, rule_matches(rule, text), 1, NoMatch, 0)

BooleanKeys == {"sanctions_clause_present", "bail_in_clause_present"}

Yes == <<"Y", "e", "s">>

PagePrefix == <<"P", "a", "g", "e", " ">>

\* The term with the captured text as its value, whatever the key.
term_of_captured(rule, src, text, positions, best) ==
  LET m        == best.match
      captured == IF m.lastindex # 0 /\ m.lastindex >= rule.extract_group
                    THEN m.groups[rule.extract_group]
                    ELSE m.group0
      page_num == _find_page_for_position(positions, m.start)
  IN  [ key               |-> rule.key,
        label             |-> rule.label,
        value             |-> strip(captured),
        source            |-> src,
        page              |-> page_num,
        evidence_text     |-> _get_context_snippet(text, m.start, m.end),
        evidence_location |-> PagePrefix \o str_of_nat(page_num),
        confidence        |-> best.confidence,
        raw_match         |-> m.group0,
        normalized        |-> FALSE ]

\* The term built from the best match of a rule.
term_of(rule, src, text, positions, best) ==
  LET m        == best.match
      captured == IF m.lastindex # 0 /\ m.lastindex >= rule.extract_group
                    THEN m.groups[rule.extract_group]
                    ELSE m.group0
      page_num == _find_page_for_position(positions, m.start)
      value    == IF rule.key \in BooleanKeys THEN Yes ELSE captured
  IN  [ key               |-> rule.key,
        label             |-> rule.label,
        value             |-> strip(value),
        source            |-> src,
        page              |-> page_num,
        evidence_text     |-> _get_context_snippet(text, m.start, m.end),
        evidence_location |-> PagePrefix \o str_of_nat(page_num),
        confidence        |-> best.confidence,
        raw_match         |-> m.group0,
        normalized        |-> FALSE ]

\* The skip forgotten: every rule is evaluated.
key_found_never(rule, found_keys) == FALSE

\* The rule is skipped: its key already has a term.
key_found(rule, found_keys) == rule.key \in found_keys

\* The loop over the rules from index i on.
RECURSIVE extract_from(_, _, _, _, _, _, _)
extract_from(rls, i, src, text, positions, found_keys, extracted_terms) ==
  IF i > Len(rls) THEN extracted_terms
  ELSE IF key_found(rls[i], found_keys)
    THEN extract_from(rls, i + 1, src, text, positions, found_keys, extracted_terms)
  ELSE LET best == rule_best(rls[i], text)
       IN  IF best.match # NoMatch
             THEN extract_from(rls, i + 1, src, text, positions,
                               found_keys \cup {rls[i].key},
                               Append(extracted_terms,
                                      term_of(rls[i], src, text, positions, best)))
             ELSE extract_from(rls, i + 1, src, text, positions,
                               found_keys, extracted_terms)

extract_terms_from_text(pgs, src, rls) ==
  extract_from(rls, 1, src, combined_text(pgs), page_positions(pgs), {}, <<>>)

\* The first result of the key, or None.  The results are those of the
\* catalog EXTRACTION_RULES of the module, passed here as EXTRACTION_RULES;
\* expected_value is not read.
RECURSIVE first_of_key(_, _, _)
first_of_key(results, i, key) ==
  IF i > Len(results) THEN [none |-> TRUE]
  ELSE IF results[i].key = key THEN [none |-> FALSE, value |-> results[i]]
  ELSE first_of_key(results, i + 1, key)

verify_term_in_document(pgs, key, expected, EXTRACTION_RULES) ==
  first_of_key(extract_terms_from_text(pgs, "VERIFICATION", EXTRACTION_RULES), 1, key)

(***************************************************************************)
(* Calls of extract_terms_from_text.  The pages, the source tag and the    *)
(* catalog are the caller's: every page list of up to MaxPages pages over  *)
(* PageTexts (numbered from 1, as the text extractor numbers them) and     *)
(* every catalog of up to MaxRules rules over RuleSet, which holds rules   *)
(* that share a key, a rule without groups, a rule asking for a group its  *)
(* pattern lacks, rules whose confidence comes out as 0, a rule whose      *)
(* second pattern gives the higher confidence and a rule with a pattern    *)
(* that matches across the boundary of two pages.                          *)
(***************************************************************************)
MaxPages == 2

MaxRules == 2

PageTexts ==
  { <<>>,
    <<"a", "b">>,
    <<"b", " ", "a", " ">>,
    <<"A", "b", " ", "a", "b">> }

PatAB   == [lit |-> <<"a", "b">>, icase |-> TRUE,  groups |-> << <<1, 1>> >>]

PatB    == [lit |-> <<"b">>,      icase |-> FALSE, groups |-> << >>]

PatASp  == [lit |-> <<"a", " ">>, icase |-> FALSE, groups |-> << <<1, 2>> >>]

PatBSpA == [lit |-> <<"b", " ", "a">>, icase |-> FALSE,
            groups |-> << <<1, 1>>, <<2, 3>> >>]

\* A pattern whose match spans the separator between two pages.
PatAcross == [lit |-> <<"b", "\n", "\n", "a">>, icase |-> FALSE,
              groups |-> << <<1, 1>>, <<4, 4>> >>]

RuleSet ==
  { [key |-> "borrower", label |-> "Borrower", patterns |-> <<PatAB>>,
     extract_group |-> 1, confidence_base |-> 90],
    [key |-> "borrower", label |-> "Obligor", patterns |-> <<PatB, PatAB>>,
     extract_group |-> 2, confidence_base |-> 85],
    [key |-> "sanctions_clause_present", label |-> "Sanctions Clause Present",
     patterns |-> <<PatASp>>, extract_group |-> 1, confidence_base |-> 92],
    [key |-> "currency", label |-> "Currency", patterns |-> <<PatBSpA, PatAB, PatAcross>>,
     extract_group |-> 2, confidence_base |-> 5],
    [key |-> "currency", label |-> "Denomination", patterns |-> <<PatASp>>,
     extract_group |-> 1, confidence_base |-> 0],
    [key |-> "facility_amount", label |-> "Facility Amount",
     patterns |-> <<PatAB, PatBSpA>>, extract_group |-> 2, confidence_base |-> 85] }

SourceTags == {"EXECUTED", "APPROVED"}

SeqsUpTo(S, n) == UNION {[1..k -> S] : k \in 0..n}

PageLists ==
  { [i \in 1..Len(texts) |-> [page |-> i, text |-> texts[i]]] :
      texts \in SeqsUpTo(PageTexts, MaxPages) }

InitExtract ==
  /\ pages \in PageLists
  /\ source \in SourceTags
  /\ rules \in SeqsUpTo(RuleSet, MaxRules)
  /\ extracted = NotCalled
  /\ verify_key = "" /\ expected_value = <<>> /\ verified = Pending
  /\ IdleValidate
  /\ IdleNormalize
  /\ IdleProcess

ExtractTerms ==
  /\ extracted = NotCalled
  /\ extracted' = extract_terms_from_text(pages, source, rules)
  /\ UNCHANGED <<pages, source, rules, verify_key, expected_value, verified>>
  /\ UNCHANGED <<validate_vars, normalize_vars, process_vars>>

NextExtract == ExtractTerms

SpecExtract == InitExtract /\ [][NextExtract]_vars

(***************************************************************************)
(* Calls of verify_term_in_document.  The catalog that the function reads  *)
(* (the module's EXTRACTION_RULES) is the variable rules.                  *)
(***************************************************************************)
VerifyKeys == {"borrower", "currency", "sanctions_clause_present"}

ExpectedValues == {<<"b">>, <<"Y", "e", "s">>}

InitVerify ==
  /\ pages \in PageLists
  /\ source = "EXECUTED"
  /\ rules \in SeqsUpTo(RuleSet, MaxRules)
  /\ extracted = NotCalled
  /\ verify_key \in VerifyKeys
  /\ expected_value \in ExpectedValues
  /\ verified = Pending
  /\ IdleValidate
  /\ IdleNormalize
  /\ IdleProcess

VerifyTermInDocument ==
  /\ verified = Pending
  /\ verified' = verify_term_in_document(pages, verify_key, expected_value, rules)
  /\ UNCHANGED <<pages, source, rules, extracted, verify_key, expected_value>>
  /\ UNCHANGED <<validate_vars, normalize_vars, process_vars>>

NextVerify == VerifyTermInDocument

SpecVerify == InitVerify /\ [][NextVerify]_vars

(***************************************************************************)
(* Properties of extract_terms_from_text                                   *)
(***************************************************************************)
Returned == extracted # NotCalled

\* The rules of the catalog with the given key that produce a term on the
\* text: a best match was selected for them.
Producing(key, text) ==
  { r \in 1..Len(rules) :
      rules[r].key = key /\ rule_best(rules[r], text).match # NoMatch }

\* C1: the list returned by extract_terms_from_text holds no two terms with
\* the same key, also for a catalog with several rules of one key: a key has
\* a term exactly when one of its rules produces one, and the term is that of
\* the first such rule in catalog order; the later rules of the key add
\* nothing.
C1_OneTermPerKey ==
  Returned =>
    LET text      == combined_text(pages)
        bests     == { <<r, rule_best(rules[r], text).match>> : r \in 1..Len(rules) }
        producers == { b \in bests : b[2] # NoMatch }
    IN  /\ \A i, j \in 1..Len(extracted) :
             extracted[i].key = extracted[j].key => i = j
        /\ \A b \in producers :
             \E i \in 1..Len(extracted) : extracted[i].key = rules[b[1]].key
        /\ \A i \in 1..Len(extracted) :
             LET producing == { b \in producers : rules[b[1]].key = extracted[i].key }
             IN  /\ producing # {}
                 /\ LET first == CHOOSE b \in producing :
                                   \A q \in producing : b[1] <= q[1]
                    IN  /\ extracted[i].label = rules[first[1]].label
                        /\ extracted[i].raw_match = first[2].group0

\* Two rules of one key both produce a term on the text; one term is returned.
C1_Witness ==
  /\ Returned
  /\ Len(rules) = 2
  /\ rules[1].key = rules[2].key
  /\ rules[1].label # rules[2].label
  /\ Cardinality(Producing(rules[1].key, combined_text(pages))) = 2
  /\ Len(extracted) = 1

\* Some pattern of the rule matches the text at some offset.
RuleMatches(rule, text) ==
  \E p \in 1..Len(rule.patterns) :
    \E pos \in 0..Len(text) : MatchesAt(rule.patterns[p], text, pos)

\* C2: a term is returned for a rule only if one of the rule's patterns
\* matches the concatenated page text; a rule without any match adds no term
\* and the call still returns a list; the raw_match of every returned term is
\* a substring of the concatenated text, matched there by a pattern of a rule
\* with the term's key and label.
C2_TermOnlyFromMatch ==
  Returned =>
    LET text == combined_text(pages)
    IN  /\ \A i \in 1..Len(extracted) :
             /\ Contains(text, extracted[i].raw_match)
             /\ \E r \in 1..Len(rules) :
                  /\ rules[r].key = extracted[i].key
                  /\ rules[r].label = extracted[i].label
                  /\ RuleMatches(rules[r], text)
                  /\ \E p \in 1..Len(rules[r].patterns) :
                       \E pos \in 0..Len(text) :
                         /\ MatchesAt(rules[r].patterns[p], text, pos)
                         /\ extracted[i].raw_match =
                              Slice(text, pos, pos + Len(rules[r].patterns[p].lit))
        /\ \A r \in 1..Len(rules) :
             (\A q \in 1..Len(rules) :
                rules[q].key = rules[r].key => ~RuleMatches(rules[q], text))
               => \A i \in 1..Len(extracted) : extracted[i].key # rules[r].key

\* A catalog of two rules on a text that one rule matches and the other does
\* not: the call returns the one term.
C2_Witness ==
  /\ Returned
  /\ Len(rules) = 2
  /\ pages # <<>>
  /\ RuleMatches(rules[1], combined_text(pages))
  /\ ~RuleMatches(rules[2], combined_text(pages))
  /\ rules[1].key # rules[2].key
  /\ Len(extracted) = 1

(***************************************************************************)
(* Results of calls that may raise: [raised, value], raised = "" when the  *)
(* call returns value and the name of the exception when it raises.        *)
(***************************************************************************)
Return(v) == [raised |-> "", value |-> v]

Raise(e) == [raised |-> e, value |-> <<>>]

(***************************************************************************)
(* services/normalizer.py: normalize_date                                  *)
(***************************************************************************)
\* The length of the run of digits of s from the 0-based offset pos.
RECURSIVE DigitRun(_, _)
DigitRun(s, pos) ==
  IF pos < Len(s) /\ s[pos + 1] \in Digits THEN 1 + DigitRun(s, pos + 1) ELSE 0

\* The length of the run of blanks of s from the 0-based offset pos.
RECURSIVE SpaceRun(_, _)
SpaceRun(s, pos) ==
  IF pos < Len(s) /\ s[pos + 1] \in Whitespace THEN 1 + SpaceRun(s, pos + 1) ELSE 0

CharAt(s, pos) == IF pos < Len(s) THEN s[pos + 1] ELSE ""

\* s.zfill(2) of a string of one or two digits
zfill2(s) == IF Len(s) < 2 THEN <<"0">> \o s ELSE s

MonthWords ==
  << <<"j","a","n","u","a","r","y">>, <<"f","e","b","r","u","a","r","y">>,
     <<"m","a","r","c","h">>, <<"a","p","r","i","l">>, <<"m","a","y">>,
     <<"j","u","n","e">>, <<"j","u","l","y">>, <<"a","u","g","u","s","t">>,
     <<"s","e","p","t","e","m","b","e","r">>, <<"o","c","t","o","b","e","r">>,
     <<"n","o","v","e","m","b","e","r">>, <<"d","e","c","e","m","b","e","r">> >>

\* MONTH_NAMES restricted to the full names, the only words the pattern of
\* normalize_date can capture: key -> two-digit month.
MONTH_NAMES ==
  [w \in {MonthWords[i] : i \in 1..12} |->
     LET i == CHOOSE k \in 1..12 : MonthWords[k] = w
     IN  IF i < 10 THEN <<"0">> \o str_of_nat(i) ELSE str_of_nat(i)]

\* ^\d{4}-\d{2}-\d{2}$ on a stripped value
IsIsoDate(v) ==
  /\ Len(v) = 10
  /\ \A i \in {1, 2, 3, 4, 6, 7, 9, 10} : v[i] \in Digits
  /\ v[5] = "-" /\ v[8] = "-"

\* (January|...|December)\s+(\d{1,2}),?\s+(\d{4}) at the start of v, under
\* re.IGNORECASE: the groups of the match, or no match.
\* The match with the month name ending at offset p1, the day at p2..p3,
\* the optional comma ending at p4 and the year starting at p5.
month_name_groups(v, p1, p2, p3, p4, p5) ==
  IF p2 - p1 >= 1 /\ (p3 - p2) \in {1, 2} /\ p5 - p4 >= 1 /\ DigitRun(v, p5) >= 4
    THEN [matched |-> TRUE,
          month   |-> Slice(v, 0, p1),
          day     |-> Slice(v, p2, p3),
          year    |-> Slice(v, p5, p5 + 4)]
    ELSE [matched |-> FALSE]

after_comma(v, p1, p2, p3, p4) ==
  month_name_groups(v, p1, p2, p3, p4, p4 + SpaceRun(v, p4))

after_day(v, p1, p2, p3) ==
  after_comma(v, p1, p2, p3, IF CharAt(v, p3) = "," THEN p3 + 1 ELSE p3)

after_blanks(v, p1, p2) == after_day(v, p1, p2, p2 + DigitRun(v, p2))

after_month_name(v, p1) == after_blanks(v, p1, p1 + SpaceRun(v, p1))

MonthNameMatch(v) ==
  LET named == {i \in 1..12 : StartsAt(fold(v), 0, MonthWords[i])}
  IN  IF named = {} THEN [matched |-> FALSE]
      ELSE after_month_name(v, Len(MonthWords[CHOOSE k \in named : TRUE]))

\* (\d{1,2})SEP(\d{1,2})SEP(\d{4}) at the start of v
ShortFirstMatch(v, sep) ==
  LET d1 == DigitRun(v, 0)
      p2 == d1 + 1
      d2 == DigitRun(v, p2)
      p3 == p2 + d2 + 1
  IN  IF /\ d1 \in {1, 2} /\ CharAt(v, d1) = sep
         /\ d2 \in {1, 2} /\ CharAt(v, p2 + d2) = sep
         /\ DigitRun(v, p3) >= 4
        THEN [matched |-> TRUE,
              first   |-> Slice(v, 0, d1),
              second  |-> Slice(v, p2, p2 + d2),
              year    |-> Slice(v, p3, p3 + 4)]
        ELSE [matched |-> FALSE]

\* (\d{4})/(\d{1,2})/(\d{1,2}) at the start of v
YearFirstMatch(v) ==
  LET d2 == DigitRun(v, 5)
      p3 == 5 + d2 + 1
      d3 == DigitRun(v, p3)
  IN  IF /\ DigitRun(v, 0) = 4 /\ CharAt(v, 4) = "/"
         /\ d2 \in {1, 2} /\ CharAt(v, 5 + d2) = "/"
         /\ d3 >= 1
        THEN [matched |-> TRUE,
              year    |-> Slice(v, 0, 4),
              month   |-> Slice(v, 5, 5 + d2),
              day     |-> Slice(v, p3, p3 + Min(d3, 2))]
        ELSE [matched |-> FALSE]

IsoOf(year, month, day) == year \o <<"-">> \o month \o <<"-">> \o day

\* The date was recognised by one of the formats (ISO included).
date_parses(value) ==
  LET v == strip(value)
  IN  \/ IsIsoDate(v)
      \/ MonthNameMatch(v).matched
      \/ ShortFirstMatch(v, "/").matched
      \/ ShortFirstMatch(v, "-").matched
      \/ YearFirstMatch(v).matched

\* The month looked up for a captured month name: lower() of the capture is
\* the key, and a capture that lower() does not turn into a key of
\* MONTH_NAMES raises KeyError.
month_lookup(captured) ==
  IF lower(captured) \in DOMAIN MONTH_NAMES
    THEN Return(MONTH_NAMES[lower(captured)])
    ELSE Raise("KeyError")

\* The date of a month-name match with the month that was looked up.
named_date(named, month) ==
  IF month.raised # "" THEN month
  ELSE Return(IsoOf(named.year, month.value, zfill2(named.day)))

\* The formats in the order of the code, given the match of each pattern
\* on the stripped value v.
date_from(v, named, slash, dash, ymd) ==
  IF IsIsoDate(v) THEN Return(v)
  ELSE IF named.matched THEN named_date(named, month_lookup(named.month))
  ELSE IF slash.matched THEN
    Return(IsoOf(slash.year, zfill2(slash.first), zfill2(slash.second)))
  ELSE IF dash.matched THEN
    Return(IsoOf(dash.year, zfill2(dash.second), zfill2(dash.first)))
  ELSE IF ymd.matched THEN
    Return(IsoOf(ymd.year, zfill2(ymd.month), zfill2(ymd.day)))
  ELSE Return(v)

stripped_date(v) ==
  date_from(v, MonthNameMatch(v), ShortFirstMatch(v, "/"), ShortFirstMatch(v, "-"),
            YearFirstMatch(v))

normalize_date(value) ==
  IF value = <<>> THEN Return(value) ELSE stripped_date(strip(value))

(***************************************************************************)
(* services/normalizer.py: numbers                                         *)
(*                                                                         *)
(* A float that the code parses from decimal text is kept as the exact     *)
(* decimal [int, frac]: the digits before and after the point, without     *)
(* leading and trailing zeros.  This is what the double holds, up to the   *)
(* roundings tabulated below, for numbers of at most 15 significant        *)
(* digits; an int is the sequence of its digits.                           *)
(***************************************************************************)
RECURSIVE strip_leading_zeros(_)
strip_leading_zeros(digits) ==
  IF Len(digits) > 1 /\ Head(digits) = "0" THEN strip_leading_zeros(Tail(digits))
  ELSE IF digits = <<>> THEN <<"0">>
  ELSE digits

RECURSIVE strip_trailing_zeros(_)
strip_trailing_zeros(digits) ==
  IF digits # <<>> /\ digits[Len(digits)] = "0"
    THEN strip_trailing_zeros(SubSeq(digits, 1, Len(digits) - 1))
    ELSE digits

Decimal(int_digits, frac_digits) ==
  [int |-> strip_leading_zeros(int_digits), frac |-> strip_trailing_zeros(frac_digits)]

\* int(text) for a run of digits: the digits without leading zeros.
int_of(text) == strip_leading_zeros(text)

\* float(text) for text of the form digits, digits.digits or .digits; the
\* empty text raises ValueError.
parse_float(text) ==
  IF text = <<>> THEN Raise("ValueError")
  ELSE LET point == IF \E i \in 1..Len(text) : text[i] = "."
                      THEN CHOOSE i \in 1..Len(text) : text[i] = "."
                      ELSE Len(text) + 1
       IN  Return(Decimal(SubSeq(text, 1, point - 1), SubSeq(text, point + 1, Len(text))))

\* A number of more than 309 digits before the point is beyond the largest
\* double and parses to inf.
IsInf(x) == Len(x.int) > 309

\* x * 10^places
RECURSIVE shift(_, _)
shift(x, places) ==
  IF places = 0 THEN x
  ELSE IF x.frac = <<>> THEN shift(Decimal(x.int \o <<"0">>, <<>>), places - 1)
  ELSE shift(Decimal(x.int \o <<Head(x.frac)>>, Tail(x.frac)), places - 1)

\* digits + 1
RECURSIVE increment(_)
increment(digits) ==
  IF digits = <<>> THEN <<"1">>
  ELSE LET last == digits[Len(digits)]
           rest == SubSeq(digits, 1, Len(digits) - 1)
       IN  IF last = "9" THEN increment(rest) \o <<"0">>
           ELSE rest \o <<DigitChars[DigitValue(last) + 2]>>

\* digits - 1, for a number above zero
RECURSIVE decrement(_)
decrement(digits) ==
  LET last == digits[Len(digits)]
      rest == SubSeq(digits, 1, Len(digits) - 1)
  IN  IF last = "0" THEN strip_leading_zeros(decrement(rest) \o <<"9">>)
      ELSE strip_leading_zeros(rest \o <<DigitChars[DigitValue(last)]>>)

\* a + b on digit sequences
RECURSIVE add_digits(_, _, _)
add_digits(a, b, carry) ==
  IF a = <<>> /\ b = <<>> THEN (IF carry = 0 THEN <<>> ELSE <<"1">>)
  ELSE LET da  == IF a = <<>> THEN 0 ELSE DigitValue(a[Len(a)])
           db  == IF b = <<>> THEN 0 ELSE DigitValue(b[Len(b)])
           sum == da + db + carry
           ra  == IF a = <<>> THEN <<>> ELSE SubSeq(a, 1, Len(a) - 1)
           rb  == IF b = <<>> THEN <<>> ELSE SubSeq(b, 1, Len(b) - 1)
       IN  add_digits(ra, rb, sum \div 10) \o <<DigitChars[(sum % 10) + 1]>>

add(a, b) == strip_leading_zeros(add_digits(a, b, 0))

\* digits // 2
RECURSIVE halve_from(_, _)
halve_from(digits, remainder) ==
  IF digits = <<>> THEN <<>>
  ELSE LET n == 10 * remainder + DigitValue(Head(digits))
       IN  <<DigitChars[(n \div 2) + 1]>> \o halve_from(Tail(digits), n % 2)

halve(digits) == strip_leading_zeros(halve_from(digits, 0))

\* The digits of an integer with a comma before every group of three.
RECURSIVE group_thousands(_)
group_thousands(digits) ==
  IF Len(digits) <= 3 THEN digits
  ELSE group_thousands(SubSeq(digits, 1, Len(digits) - 3))
         \o <<",">> \o SubSeq(digits, Len(digits) - 2, Len(digits))

\* f'{x:,.0f}': the nearest integer, a tie going to the even one.
format_0f(x) ==
  LET odd  == DigitValue(x.int[Len(x.int)]) % 2 = 1
      up   == /\ x.frac # <<>>
              /\ \/ DigitValue(x.frac[1]) > 5
                 \/ DigitValue(x.frac[1]) = 5 /\ (Len(x.frac) > 1 \/ odd)
  IN  group_thousands(IF up THEN increment(x.int) ELSE x.int)

(***************************************************************************)
(* The double nearest to the decimal n / 10^k is m / 2^e with               *)
(* 2^52 <= m < 2^53.  Which side of the decimal it lies on, and how far,   *)
(* follows from the remainder of n * 2^e modulo 10^k; the operators below  *)
(* compute it for n below 10^6 and k up to 4.                              *)
(***************************************************************************)

\* The exponent e: the largest with n * 2^e < 2^53 * 10^k, for n > 0.
RECURSIVE exponent_from(_, _, _)
exponent_from(n, unit, e) ==
  IF n >= 2 * unit THEN exponent_from(n, 2 * unit, e - 1)
  ELSE IF n < unit THEN exponent_from(2 * n, unit, e + 1)
  ELSE e

exponent(n, k) == exponent_from(n, Pow10(k), 52)

\* 2^e % modulus, for a modulus of at most 10^4
RECURSIVE Pow2Mod(_, _)
Pow2Mod(e, modulus) ==
  IF e = 0 THEN 1 % modulus
  ELSE LET half == Pow2Mod(e \div 2, modulus)
       IN  (half * half * (IF e % 2 = 1 THEN 2 ELSE 1)) % modulus

\* (n * 2^e) % modulus
scaled_remainder(n, e, modulus) == ((n % modulus) * Pow2Mod(e, modulus)) % modulus

\* -1, 0 or 1 as the double of n / 10^k lies below, on or above it.
double_side(n, k) ==
  IF n = 0 THEN 0
  ELSE LET r == scaled_remainder(n, exponent(n, k), Pow10(k))
       IN  IF r = 0 THEN 0 ELSE IF 2 * r < Pow10(k) THEN -1 ELSE 1

\* The decimal rounds up when cut after two decimals: the digits after the
\* second say so, and at a tie (a third decimal 5 and no more) the side of
\* the double does, an exact tie going to the even hundredth.
rounds_up(x) ==
  /\ Len(x.frac) > 2
  /\ \/ DigitValue(x.frac[3]) > 5
     \/ DigitValue(x.frac[3]) = 5 /\ Len(x.frac) > 3
     \/ /\ DigitValue(x.frac[3]) = 5 /\ Len(x.frac) = 3
        /\ LET side == double_side(nat_of(x.int \o x.frac), 3)
           IN  side = 1 \/ (side = 0 /\ DigitValue(x.frac[2]) % 2 = 1)

\* f'{x:.2f}'
format_2f(x) ==
  LET padded == x.frac \o <<"0", "0">>
      whole  == x.int \o SubSeq(padded, 1, 2)
      shown  == IF rounds_up(x) THEN increment(whole) ELSE whole
  IN  SubSeq(shown, 1, Len(shown) - 2) \o <<".">> \o SubSeq(shown, Len(shown) - 1, Len(shown))

RECURSIVE Pow2(_)
Pow2(e) == IF e = 0 THEN 1 ELSE 2 * Pow2(e - 1)

\* The low bits of the mantissa that decide two roundings: each drops at
\* most 7 bits, and a tie looks at the bit above.
KnownBits == 2 * 7 + 1

\* The double m / 2^e of n / 10^k, n > 0: e, the low bits of m, and the
\* error s with m * 10^k = n * 2^e - s.
double_of(n, k) ==
  LET e  == exponent(n, k)
      \* (n * 2^e) % (10^k * 2^KnownBits), where 2^(KnownBits + k) divides
      \* both
      r  == Pow2(KnownBits + k)
              * scaled_remainder(n, e - KnownBits - k, Pow10(k) \div Pow2(k))
      up == 2 * (r % Pow10(k)) > Pow10(k)
  IN  [e   |-> e,
       s   |-> IF up THEN (r % Pow10(k)) - Pow10(k) ELSE r % Pow10(k),
       low |-> ((r \div Pow10(k)) + (IF up THEN 1 ELSE 0)) % Pow2(KnownBits)]

\* -1, 0 or 1 as left * 2^le is below, equal to or above right * 2^re.
scaled_compare(left, le, right, re) ==
  LET l == left * Pow2(le - Min(le, re))
      r == right * Pow2(re - Min(le, re))
  IN  IF l < r THEN -1 ELSE IF l > r THEN 1 ELSE 0

\* What rounding to the nearest multiple of 2^q, ties to even, takes off a
\* number with the low bits given (negative when it rounds up).
round_off(low, q) ==
  LET rem  == low % Pow2(q)
      half == Pow2(q - 1)
      odd  == (low \div Pow2(q)) % 2 = 1
  IN  IF rem < half \/ (rem = half /\ ~odd) THEN rem ELSE rem - Pow2(q)

\* A product by 100 of a double has 59 or 60 bits, of which 53 are kept:
\* the bits that rounding drops, as the product lies below 2^59 or not.
dropped_bits(below) == IF below THEN 6 ELSE 7

\* The product by 100 of the double of x, rounded to a double, falls short
\* of the integer 100 * x (x of at most 2 decimals).
falls_short(x) ==
  /\ Len(x.frac) \in 1..2
  /\ LET k     == Len(x.frac)
         n     == nat_of(x.int \o x.frac)
         d     == double_of(n, k)
         first == scaled_compare(100 * n, d.e, Pow10(k), 59)
         q1    == dropped_bits(first < 0 \/ (first = 0 /\ d.s > 0))
         a     == round_off((100 * d.low) % Pow2(KnownBits), q1)
     IN  100 * d.s + a * Pow10(k) > 0

\* Two products by 100 of the double of x = 0.d..., each rounded to a
\* double, fall short of the integer 10000 * x (x of at most 4 decimals).
falls_short_twice(x) ==
  /\ Len(x.frac) \in 1..4
  /\ LET k     == Len(x.frac)
         n     == nat_of(x.frac)
         d     == double_of(n, k)
         first == scaled_compare(100 * n, d.e, Pow10(k), 59)
         q1    == dropped_bits(first < 0 \/ (first = 0 /\ d.s > 0))
         low1  == (100 * d.low) % Pow2(KnownBits)
         a     == round_off(low1, q1)
         low2  == ((low1 - a) % Pow2(KnownBits)) \div Pow2(q1)
         then  == scaled_compare(10000 * n, d.e, Pow10(k), 59 + q1)
         q2    == dropped_bits(then < 0 \/
                                 (then = 0 /\ 10000 * d.s + 100 * a * Pow10(k) > 0))
         b     == round_off((100 * low2) % Pow2(KnownBits - q1), q2)
     IN  10000 * d.s + 100 * a * Pow10(k) + b * Pow2(q1) * Pow10(k) > 0

\* int(x * 100) for the double of the decimal x
times_100_int(x) ==
  LET exact == strip_leading_zeros(shift(x, 2).int)
  IN  IF falls_short(x) THEN decrement(exact) ELSE exact

(***************************************************************************)
(* services/normalizer.py: the normalizers of amounts, margins, ratios and *)
(* booleans, and normalize_term_value                                      *)
(***************************************************************************)
None == [none |-> TRUE]

Some(v) == [none |-> FALSE, value |-> v]

\* Characters outside ASCII that the patterns name.
Euro == "U+20AC"

Pound == "U+00A3"

Yen == "U+00A5"

EnDash == "U+2013"

Times == "U+00D7"

Inf == <<"i","n","f">>

\* The least offset of s at which the pattern matches, -1 when it matches
\* nowhere: re.search.
search(at(_, _), s) ==
  LET hits == {pos \in 0..(Len(s) - 1) : at(s, pos)}
  IN  IF hits = {} THEN -1 ELSE CHOOSE pos \in hits : \A other \in hits : pos <= other

\* The length of the match of \d+(?:\.\d+)? at pos, 0 for no match.
NumberAt(s, pos) ==
  LET whole == DigitRun(s, pos)
      frac  == DigitRun(s, pos + whole + 1)
  IN  IF whole = 0 THEN 0
      ELSE IF CharAt(s, pos + whole) = "." /\ frac > 0 THEN whole + 1 + frac
      ELSE whole

\* The offset after the blanks from pos: \s*
SkipSpace(s, pos) == pos + SpaceRun(s, pos)

CurrencySymbols == {"$", Euro, Pound, Yen}

\* (USD|EUR|GBP|CHF|JPY|dollars?|euros?|pounds?) in the order the
\* alternatives are tried, the longer form of an optional s first.
CurrencyWords ==
  << <<"u","s","d">>, <<"e","u","r">>, <<"g","b","p">>, <<"c","h","f">>,
     <<"j","p","y">>, <<"d","o","l","l","a","r","s">>, <<"d","o","l","l","a","r">>,
     <<"e","u","r","o","s">>, <<"e","u","r","o">>,
     <<"p","o","u","n","d","s">>, <<"p","o","u","n","d">> >>

\* re.sub of the currency words by '', under re.IGNORECASE.
RECURSIVE remove_words_from(_, _)
remove_words_from(s, pos) ==
  IF pos >= Len(s) THEN <<>>
  ELSE LET words == {i \in 1..Len(CurrencyWords) : StartsAt(fold(s), pos, CurrencyWords[i])}
       IN  IF words = {} THEN <<s[pos + 1]>> \o remove_words_from(s, pos + 1)
           ELSE LET first == CHOOSE i \in words : \A j \in words : i <= j
                IN  remove_words_from(s, pos + Len(CurrencyWords[first]))

detect_currency(value) ==
  LET value_upper == upper(value)
      has(word, symbol) == Contains(value_upper, word) \/ Contains(value, <<symbol>>)
  IN  IF has(<<"E","U","R">>, Euro) THEN <<"E","U","R">>
      ELSE IF has(<<"G","B","P">>, Pound) THEN <<"G","B","P">>
      ELSE IF Contains(value_upper, <<"C","H","F">>) THEN <<"C","H","F">>
      ELSE IF has(<<"J","P","Y">>, Yen) THEN <<"J","P","Y">>
      ELSE <<"U","S","D">>

Billion == 9

Million == 6

Thousand == 3

\* The multiplier as a power of ten.
multiplier_places(value) ==
  LET said(word) == Contains(fold(value), word)
  IN  IF said(<<"b","i","l","l","i","o","n">>) THEN Billion
      ELSE IF said(<<"m","i","l","l","i","o","n">>) THEN Million
      ELSE IF said(<<"t","h","o","u","s","a","n","d">>) THEN Thousand
      ELSE 0

\* The length of the run of digits and commas from pos: [\d,]+
RECURSIVE AmountRun(_, _)
AmountRun(s, pos) ==
  IF pos < Len(s) /\ s[pos + 1] \in Digits \cup {","} THEN 1 + AmountRun(s, pos + 1) ELSE 0

AmountAt(s, pos) == AmountRun(s, pos) > 0

\* group(1) of re.search(r'([\d,]+(?:\.\d+)?)', cleaned), for a match at pos
amount_text(s, pos) ==
  LET run  == AmountRun(s, pos)
      frac == DigitRun(s, pos + run + 1)
  IN  IF CharAt(s, pos + run) = "." /\ frac > 0
        THEN Slice(s, pos, pos + run + 1 + frac)
        ELSE Slice(s, pos, pos + run)

format_amount(currency, x) ==
  currency \o <<" ">> \o
    (IF IsInf(x) THEN Inf
     ELSE IF x.int # <<"0">> THEN format_0f(x)
     ELSE format_2f(x))

\* The pair (formatted string, numeric value or None) as [text, number].
normalize_currency_amount(value) ==
  IF value = <<>> THEN [text |-> value, number |-> None]
  ELSE
    LET stripped == strip(value)
        currency == detect_currency(stripped)
        cleaned  == strip(remove_words_from(
                            SelectSeq(stripped, LAMBDA c : c \notin CurrencySymbols), 0))
        places   == multiplier_places(stripped)
        at       == search(AmountAt, cleaned)
        parsed   == parse_float(SelectSeq(amount_text(cleaned, at), LAMBDA c : c # ","))
    IN  IF at >= 0 /\ parsed.raised = ""
          THEN LET numeric_value == shift(parsed.value, places)
               IN  [text |-> format_amount(currency, numeric_value),
                    number |-> Some(numeric_value)]
          ELSE [text |-> stripped, number |-> None]

BpsSuffix == <<" ","b","p","s">>

\* (\d+)\s*[-–]\s*(\d+)\s*(?:bps|bp|basis), under re.IGNORECASE
RangeParts(s, pos) ==
  LET low_end    == pos + DigitRun(s, pos)
      dash       == SkipSpace(s, low_end)
      high_start == SkipSpace(s, dash + 1)
      high_end   == high_start + DigitRun(s, high_start)
      unit       == SkipSpace(s, high_end)
  IN  [matched |-> /\ low_end > pos
                   /\ CharAt(s, dash) \in {"-", EnDash}
                   /\ high_end > high_start
                   /\ \/ StartsAt(fold(s), unit, <<"b","p">>)
                      \/ StartsAt(fold(s), unit, <<"b","a","s","i","s">>),
       low     |-> Slice(s, pos, low_end),
       high    |-> Slice(s, high_start, high_end)]

RangeAt(s, pos) == RangeParts(s, pos).matched

\* (\d+(?:\.\d+)?)\s*(?:bps|bp|basis\s+points?), under re.IGNORECASE
DirectAt(s, pos) ==
  LET number_end == pos + NumberAt(s, pos)
      unit       == SkipSpace(s, number_end)
      basis_end  == unit + 5
  IN  /\ number_end > pos
      /\ \/ StartsAt(fold(s), unit, <<"b","p">>)
         \/ /\ StartsAt(fold(s), unit, <<"b","a","s","i","s">>)
            /\ SpaceRun(s, basis_end) > 0
            /\ StartsAt(fold(s), SkipSpace(s, basis_end), <<"p","o","i","n","t">>)

\* (\d+(?:\.\d+)?)\s*%
PercentAt(s, pos) ==
  LET number_end == pos + NumberAt(s, pos)
  IN  number_end > pos /\ CharAt(s, SkipSpace(s, number_end)) = "%"

\* ^0\.(\d+)$
IsDecimalFraction(s) ==
  Len(s) > 2 /\ s[1] = "0" /\ s[2] = "." /\ DigitRun(s, 2) = Len(s) - 2

\* int(x * 100 * 100) for the double of the decimal x = 0.d...
times_10000_int(x) ==
  LET exact == strip_leading_zeros(shift(x, 4).int)
  IN  IF falls_short_twice(x) THEN decrement(exact) ELSE exact

\* group(1) of a match at pos of a pattern that starts with the number
number_text(s, pos) == Slice(s, pos, pos + NumberAt(s, pos))

\* normalize_basis_points with the direct mention tested before the range.
normalize_basis_points_direct_first(value) ==
  IF value = <<>> THEN Return([text |-> value, number |-> None])
  ELSE
    LET stripped == strip(value)
        range    == search(RangeAt, stripped)
        direct   == search(DirectAt, stripped)
        percent  == search(PercentAt, stripped)
    IN  IF direct >= 0 THEN
          LET bps == parse_float(number_text(stripped, direct)).value
          IN  IF IsInf(bps) THEN Raise("OverflowError")
              ELSE Return([text |-> bps.int \o BpsSuffix, number |-> Some(bps.int)])
        ELSE IF range >= 0 THEN
          LET low  == int_of(RangeParts(stripped, range).low)
              high == int_of(RangeParts(stripped, range).high)
          IN  Return([text |-> low \o <<"-">> \o high \o BpsSuffix,
                      number |-> Some(halve(add(low, high)))])
        ELSE IF percent >= 0 THEN
          LET pct == parse_float(number_text(stripped, percent)).value
          IN  IF IsInf(pct) THEN Raise("OverflowError")
              ELSE Return([text |-> times_100_int(pct) \o BpsSuffix,
                           number |-> Some(times_100_int(pct))])
        ELSE IF IsDecimalFraction(stripped) THEN
          LET bps == times_10000_int(parse_float(stripped).value)
          IN  Return([text |-> bps \o BpsSuffix, number |-> Some(bps)])
        ELSE Return([text |-> stripped, number |-> None])

\* The pair as [text, number], or the exception raised.
normalize_basis_points(value) ==
  IF value = <<>> THEN Return([text |-> value, number |-> None])
  ELSE
    LET stripped == strip(value)
        range    == search(RangeAt, stripped)
        direct   == search(DirectAt, stripped)
        percent  == search(PercentAt, stripped)
    IN  IF range >= 0 THEN
          LET low  == int_of(RangeParts(stripped, range).low)
              high == int_of(RangeParts(stripped, range).high)
          IN  Return([text |-> low \o <<"-">> \o high \o BpsSuffix,
                      number |-> Some(halve(add(low, high)))])
        ELSE IF direct >= 0 THEN
          LET bps == parse_float(number_text(stripped, direct)).value
          IN  IF IsInf(bps) THEN Raise("OverflowError")
              ELSE Return([text |-> bps.int \o BpsSuffix, number |-> Some(bps.int)])
        ELSE IF percent >= 0 THEN
          LET pct == parse_float(number_text(stripped, percent)).value
          IN  IF IsInf(pct) THEN Raise("OverflowError")
              ELSE Return([text |-> times_100_int(pct) \o BpsSuffix,
                           number |-> Some(times_100_int(pct))])
        ELSE IF IsDecimalFraction(stripped) THEN
          LET bps == times_10000_int(parse_float(stripped).value)
          IN  Return([text |-> bps \o BpsSuffix, number |-> Some(bps)])
        ELSE Return([text |-> stripped, number |-> None])

\* (\d+(?:\.\d+)?)\s*(?:to|:)\s*1(?:\.00)?, under re.IGNORECASE
ToOneAt(s, pos) ==
  LET number_end == pos + NumberAt(s, pos)
      word       == SkipSpace(s, number_end)
      word_end   == IF StartsAt(fold(s), word, <<"t","o">>) THEN word + 2
                    ELSE IF CharAt(s, word) = ":" THEN word + 1
                    ELSE -1
  IN  number_end > pos /\ word_end >= 0 /\ CharAt(s, SkipSpace(s, word_end)) = "1"

\* (\d+(?:\.\d+)?)\s*[x×], under re.IGNORECASE
TimesAt(s, pos) ==
  LET number_end == pos + NumberAt(s, pos)
  IN  number_end > pos /\ fold_char(CharAt(s, SkipSpace(s, number_end))) \in {"x", Times}

\* ^(\d+(?:\.\d+)?)$
IsNumber(s) == s # <<>> /\ NumberAt(s, 0) = Len(s)

format_ratio(x) == (IF IsInf(x) THEN Inf ELSE format_2f(x)) \o <<"x">>

normalize_ratio(value) ==
  IF value = <<>> THEN [text |-> value, number |-> None]
  ELSE
    LET stripped == strip(value)
        to_one   == search(ToOneAt, stripped)
        times    == search(TimesAt, stripped)
        at       == IF to_one >= 0 THEN to_one
                    ELSE IF times >= 0 THEN times
                    ELSE IF IsNumber(stripped) THEN 0
                    ELSE -1
    IN  IF at >= 0
          THEN LET ratio == parse_float(number_text(stripped, at)).value
               IN  [text |-> format_ratio(ratio), number |-> Some(ratio)]
          ELSE [text |-> stripped, number |-> None]

positive ==
  << <<"y","e","s">>, <<"t","r","u","e">>, <<"1">>, <<"p","r","e","s","e","n","t">>,
     <<"f","o","u","n","d">>, <<"i","n","c","l","u","d","e","d">>,
     <<"r","e","q","u","i","r","e","d">> >>

No == <<"N", "o">>

normalize_boolean(value) ==
  IF value = <<>> THEN No
  ELSE LET v == lower(strip(value))
       IN  IF \E i \in 1..Len(positive) : v = positive[i] \/ Contains(v, positive[i])
             THEN Yes
             ELSE No

\* The branch of normalize_term_value for the key 'currency'.
currency_code(value) ==
  LET value_upper == strip(upper(value))
      names(long, short, symbol) ==
        \/ Contains(value_upper, long)
        \/ Contains(value_upper, short)
        \/ Contains(value, <<symbol>>)
  IN  IF names(<<"D","O","L","L","A","R">>, <<"U","S","D">>, "$") THEN <<"U","S","D">>
      ELSE IF names(<<"E","U","R","O">>, <<"E","U","R">>, Euro) THEN <<"E","U","R">>
      ELSE IF names(<<"P","O","U","N","D">>, <<"G","B","P">>, Pound) THEN <<"G","B","P">>
      ELSE IF Len(value) >= 3 THEN Slice(value_upper, 0, Min(3, Len(value_upper)))
      ELSE value

\* key_class with the test for an amount key moved before the test for a date
\* key.
key_class_amount_first(key) ==
  LET has(word) == Contains(lower(key), word)
  IN  IF has(<<"a","m","o","u","n","t">>) THEN "amount"
      ELSE IF has(<<"d","a","t","e">>) THEN "date"
      ELSE IF has(<<"m","a","r","g","i","n">>) \/ has(<<"s","p","r","e","a","d">>)
              \/ has(<<"b","p","s">>)
        THEN "bps"
      ELSE IF has(<<"r","a","t","i","o">>) \/ has(<<"l","e","v","e","r","a","g","e">>)
              \/ has(<<"c","o","v","e","r","a","g","e">>)
        THEN "ratio"
      ELSE IF has(<<"p","r","e","s","e","n","t">>) \/ has(<<"r","e","q","u","i","r","e","d">>)
        THEN "boolean"
      ELSE IF key = <<"c","u","r","r","e","n","c","y">> THEN "currency"
      ELSE "default"

\* The normalizer that the key selects: the first class with a keyword in
\* the key.
key_class(key) ==
  LET has(word) == Contains(lower(key), word)
  IN  IF has(<<"d","a","t","e">>) THEN "date"
      ELSE IF has(<<"a","m","o","u","n","t">>)
              \/ Contains(key, <<"f","a","c","i","l","i","t","y","_","a","m","o","u","n","t">>)
        THEN "amount"
      ELSE IF has(<<"m","a","r","g","i","n">>) \/ has(<<"s","p","r","e","a","d">>)
              \/ has(<<"b","p","s">>)
        THEN "bps"
      ELSE IF has(<<"r","a","t","i","o">>) \/ has(<<"l","e","v","e","r","a","g","e">>)
              \/ has(<<"c","o","v","e","r","a","g","e">>)
        THEN "ratio"
      ELSE IF has(<<"p","r","e","s","e","n","t">>) \/ has(<<"r","e","q","u","i","r","e","d">>)
        THEN "boolean"
      ELSE IF key = <<"c","u","r","r","e","n","c","y">> THEN "currency"
      ELSE "default"

\* The string returned, or the exception raised.
normalize_term_value(key, value) ==
  IF value = <<>> THEN Return(value)
  ELSE CASE key_class(key) = "date" -> normalize_date(value)
         [] key_class(key) = "amount" -> Return(normalize_currency_amount(value).text)
         [] key_class(key) = "bps" ->
              LET normalized == normalize_basis_points(value)
              IN  IF normalized.raised # "" THEN Raise(normalized.raised)
                  ELSE Return(normalized.value.text)
         [] key_class(key) = "ratio" -> Return(normalize_ratio(value).text)
         [] key_class(key) = "boolean" -> Return(normalize_boolean(value))
         [] key_class(key) = "currency" -> Return(currency_code(value))
         [] OTHER -> Return(strip(value))

(***************************************************************************)
(* services/validation.py                                                  *)
(*                                                                         *)
(* Fixed text that the code only copies (labels, messages, regulation      *)
(* impacts, the evidence of a term) is a sequence of fragments, each       *)
(* fragment one TLA+ string; text that the code inspects (values) is a     *)
(* sequence of characters.                                                 *)
(***************************************************************************)
HIGH == "HIGH"

WARN == "WARN"

INFO == "INFO"

ImpactAmount == <<"Material economic divergence exceeds approved credit limit. Requires immediate credit committee escalation and re-approval before drawdown.">>

ImpactMaturity == <<"Tenor mismatch affects facility classification and liquidity reporting. Verify whether deviation was authorized.">>

ImpactMargin == <<"Pricing deviation may affect profitability calculations. Review against approved ROE thresholds.">>

ImpactBenchmark == <<"Benchmark rate change affects interest rate risk hedging requirements and regulatory reporting.">>

ImpactLeverage == <<"Covenant threshold deviation may affect credit risk assessment and provisioning.">>

ImpactCoverage == <<"Interest coverage covenant change may affect debt serviceability analysis.">>

ImpactCurrency == <<"Currency mismatch affects FX risk calculations and regulatory capital requirements.">>

ImpactBorrower == <<"Obligor identity mismatch is a critical error. Verify counterparty due diligence.">>

\* The catalog in the order of the dict.
VALIDATION_RULES ==
  << [key |-> "facility_amount", high_severity |-> TRUE,
      regulation_impact |-> ImpactAmount, comparison |-> "exact"],
     [key |-> "maturity_date", high_severity |-> TRUE,
      regulation_impact |-> ImpactMaturity, comparison |-> "date"],
     [key |-> "margin_bps", high_severity |-> FALSE,
      regulation_impact |-> ImpactMargin, comparison |-> "numeric"],
     [key |-> "benchmark", high_severity |-> TRUE,
      regulation_impact |-> ImpactBenchmark, comparison |-> "exact"],
     [key |-> "covenant_total_net_leverage", high_severity |-> FALSE,
      regulation_impact |-> ImpactLeverage, comparison |-> "numeric"],
     [key |-> "covenant_interest_coverage", high_severity |-> FALSE,
      regulation_impact |-> ImpactCoverage, comparison |-> "numeric"],
     [key |-> "currency", high_severity |-> TRUE,
      regulation_impact |-> ImpactCurrency, comparison |-> "exact"],
     [key |-> "borrower", high_severity |-> TRUE,
      regulation_impact |-> ImpactBorrower, comparison |-> "fuzzy"] >>

RuleKeys == {VALIDATION_RULES[i].key : i \in 1..Len(VALIDATION_RULES)}

\* The clauses in the order of the dict; required_key is
\* clause_key.replace('_present', '_required').
REQUIRED_CLAUSES ==
  << [key |-> "sanctions_clause_present", required_key |-> "sanctions_clause_required",
      label |-> "Sanctions Clause",
      regulation_impact |-> <<"Sanctions clause required per OFAC compliance policy. ",
                              "Missing clause", " may block drawdown.">>],
     [key |-> "bail_in_clause_present", required_key |-> "bail_in_clause_required",
      label |-> "Bail-In Clause",
      regulation_impact |-> <<"Bail-In recognition clause required per Article 55 BRRD for contracts with EU/EEA counterparties.">>] >>

_normalize_for_comparison(value) ==
  IF value = <<>> THEN <<>>
  ELSE LET lowered  == strip(lower(value))
           nocomma  == replace(lowered, <<",">>, <<>>)
           nodollar == replace(nocomma, <<"$">>, <<>>)
           nousd    == replace(nodollar, <<"u", "s", "d">>, <<>>)
       IN  replace(nousd, <<" ", " ">>, <<" ">>)

\* re.findall(r'[\d.]+', value)[0]: the first maximal run of digits and
\* dots, <<>> when the value has none.
NumChars == Digits \cup {"."}

RECURSIVE NumRun(_, _)
NumRun(s, pos) ==
  IF pos < Len(s) /\ s[pos + 1] \in NumChars THEN 1 + NumRun(s, pos + 1) ELSE 0

RECURSIVE first_number_from(_, _)
first_number_from(s, pos) ==
  IF pos >= Len(s) THEN <<>>
  ELSE IF s[pos + 1] \in NumChars THEN Slice(s, pos, pos + NumRun(s, pos))
  ELSE first_number_from(s, pos + 1)

first_number(value) == first_number_from(value, 0)

\* float() of a run of digits and dots, as the exact decimal
\* mantissa / 10^scale: it raises ValueError unless the run holds a digit
\* and at most one dot.
float_of(token) ==
  LET dots   == {i \in 1..Len(token) : token[i] = "."}
      digits == SelectSeq(token, LAMBDA c : c \in Digits)
  IN  IF Cardinality(dots) > 1 \/ digits = <<>> THEN Raise("ValueError")
      ELSE Return([mantissa |-> nat_of(digits),
                   scale    |-> IF dots = {} THEN 0
                                ELSE Len(token) - (CHOOSE i \in dots : TRUE)])

Abs(x) == IF x < 0 THEN -x ELSE x

\* abs(a - e) / max(a, 1) < 0.001 for the decimals a and e, both brought
\* to the denominator unit: |an - en| * 1000 < max(an, unit), written
\* without the product.
within_tolerance(a, e) ==
  LET unit == Pow10(a.scale + e.scale)
      an   == a.mantissa * Pow10(e.scale)
      en   == e.mantissa * Pow10(a.scale)
  IN  Abs(an - en) <= (Max(an, unit) - 1) \div 1000

\* approved_normalized == executed_normalized, or the exception of the
\* first normalize_date that raises.
same_date(approved_normalized, executed_normalized) ==
  IF approved_normalized.raised # "" THEN Raise(approved_normalized.raised)
  ELSE IF executed_normalized.raised # "" THEN Raise(executed_normalized.raised)
  ELSE Return(approved_normalized.value = executed_normalized.value)

\* The result is TRUE or FALSE, or the exception of normalize_date.
_values_match(approved_val, executed_val, comparison_type) ==
  LET approved_clean == _normalize_for_comparison(approved_val)
      executed_clean == _normalize_for_comparison(executed_val)
  IN  CASE comparison_type = "exact" -> Return(approved_clean = executed_clean)
        [] comparison_type = "numeric" ->
             LET approved_nums == first_number(approved_val)
                 executed_nums == first_number(executed_val)
             IN  IF approved_nums = <<>> \/ executed_nums = <<>>
                   THEN Return(approved_clean = executed_clean)
                 ELSE LET approved_num == float_of(approved_nums)
                          executed_num == float_of(executed_nums)
                      IN  IF approved_num.raised # "" \/ executed_num.raised # ""
                            THEN Return(FALSE)
                            ELSE Return(within_tolerance(approved_num.value,
                                                         executed_num.value))
        [] comparison_type = "date" ->
             same_date(normalize_date(approved_val), normalize_date(executed_val))
        [] comparison_type = "fuzzy" ->
             Return(Contains(executed_clean, approved_clean)
                      \/ Contains(approved_clean, executed_clean))
        [] comparison_type = "contains" ->
             Return(Contains(executed_clean, approved_clean))
        [] OTHER -> Return(FALSE)

\* The keys of the dict built from a term list, in insertion order.
RECURSIVE lookup_keys_from(_, _, _)
lookup_keys_from(terms, i, keys) ==
  IF i > Len(terms) THEN keys
  ELSE IF \E j \in 1..Len(keys) : keys[j] = terms[i].key
    THEN lookup_keys_from(terms, i + 1, keys)
    ELSE lookup_keys_from(terms, i + 1, Append(keys, terms[i].key))

lookup_keys(terms) == lookup_keys_from(terms, 1, <<>>)

KeysOf(terms) == {terms[i].key : i \in 1..Len(terms)}

\* lookup[key]: a later term of a key overwrites an earlier one.
lookup(terms, key) ==
  terms[CHOOSE i \in 1..Len(terms) :
          /\ terms[i].key = key
          /\ \A j \in 1..Len(terms) : terms[j].key = key => j <= i]

Issue(code, severity, message, key, label, evidence, approved_ev, executed_ev, impact) ==
  [ code               |-> code,
    severity           |-> severity,
    message            |-> message,
    related_term_key   |-> key,
    related_term_label |-> label,
    evidence           |-> evidence,
    approved_evidence  |-> approved_ev,
    executed_evidence  |-> executed_ev,
    regulation_impact  |-> impact ]

ApprovedColon == <<"A", "p", "p", "r", "o", "v", "e", "d", ":", " ">>

VsExecutedColon ==
  <<" ", "v", "s", " ", "E", "x", "e", "c", "u", "t", "e", "d", ":", " ">>

mismatch_evidence(approved_val, executed_val) ==
  ApprovedColon \o approved_val \o VsExecutedColon \o executed_val

\* Every mismatch reported as material.
mismatch_severity_high(rule) == HIGH

\* The severity of a mismatch under a rule.
mismatch_severity(rule) == IF rule.high_severity THEN HIGH ELSE WARN

mismatch_issue(rule, approved_term, executed_term) ==
  Issue("MISMATCH", mismatch_severity(rule),
        <<approved_term.label,
          " differs between Approved Credit Summary and Executed Agreement">>,
        rule.key, approved_term.label,
        mismatch_evidence(approved_term.value, executed_term.value),
        approved_term.evidence_text, executed_term.evidence_text,
        rule.regulation_impact)

\* The rule compares a pair of terms: its key is in both lookups.
compared(rule, approved, executed) ==
  rule.key \in KeysOf(approved) /\ rule.key \in KeysOf(executed)

\* 1) Compare matching terms: the loop over VALIDATION_RULES from index i
\* on; the exception of a comparison ends the call.
RECURSIVE compare_from(_, _, _, _)
compare_from(i, approved, executed, issues_so_far) ==
  IF i > Len(VALIDATION_RULES) THEN Return(issues_so_far)
  ELSE LET rule == VALIDATION_RULES[i]
       IN  IF compared(rule, approved, executed)
             THEN LET approved_term == lookup(approved, rule.key)
                      executed_term == lookup(executed, rule.key)
                      same == _values_match(approved_term.value,
                                            executed_term.value, rule.comparison)
                  IN  IF same.raised # "" THEN Raise(same.raised)
                      ELSE IF ~same.value
                        THEN compare_from(i + 1, approved, executed,
                               Append(issues_so_far,
                                      mismatch_issue(rule, approved_term, executed_term)))
                        ELSE compare_from(i + 1, approved, executed, issues_so_far)
             ELSE compare_from(i + 1, approved, executed, issues_so_far)

Affirmative ==
  { <<"y", "e", "s">>, <<"t", "r", "u", "e">>,
    <<"p", "r", "e", "s", "e", "n", "t">>, <<"1">> }

clause_is_required(clause, approved) ==
  clause.required_key \in KeysOf(approved) \/ clause.key \in KeysOf(approved)

\* The value of the clause term not looked at.
clause_is_present_any(clause, executed) == clause.key \in KeysOf(executed)

clause_is_present(clause, executed) ==
  /\ clause.key \in KeysOf(executed)
  /\ lower(lookup(executed, clause.key).value) \in Affirmative

RequiredPerPolicy == <<"Required per credit policy">>

NotFound == <<"Not found">>

clause_present_issue(clause, executed) ==
  Issue("CLAUSE_PRESENT", INFO,
        <<clause.label, " is present in executed agreement">>,
        clause.key, clause.label,
        <<clause.label, " found in executed document">>,
        RequiredPerPolicy,
        lookup(executed, clause.key).evidence_text,
        replace(clause.regulation_impact, <<"Missing clause">>, <<"Clause present -">>))

missing_clause_issue(clause) ==
  Issue("MISSING_CLAUSE", WARN,
        <<clause.label, " is required but not found in executed agreement">>,
        clause.key, clause.label,
        <<clause.label, " not detected in executed document">>,
        RequiredPerPolicy,
        NotFound,
        clause.regulation_impact)

\* 2) Check for required clauses: the loop over REQUIRED_CLAUSES.
RECURSIVE clauses_from(_, _, _)
clauses_from(i, approved, executed) ==
  IF i > Len(REQUIRED_CLAUSES) THEN <<>>
  ELSE LET clause == REQUIRED_CLAUSES[i]
           found  == IF clause_is_present(clause, executed)
                       THEN <<clause_present_issue(clause, executed)>>
                     ELSE IF clause_is_required(clause, approved)
                       THEN <<missing_clause_issue(clause)>>
                     ELSE <<>>
       IN  found \o clauses_from(i + 1, approved, executed)

\* The catalog not consulted.
incomplete_any(term_key, executed) == term_key \notin KeysOf(executed)

\* The approved key is reported as missing from the executed terms.
incomplete(term_key, executed) ==
  term_key \notin KeysOf(executed) /\ term_key \in RuleKeys

completeness_issue(term_key, approved_term) ==
  Issue("COMPLETENESS", WARN,
        <<approved_term.label, " was approved but not found in executed agreement">>,
        term_key, approved_term.label,
        <<"Approved: Found vs Executed: Not found">>,
        approved_term.evidence_text,
        <<"Term not detected in executed document">>,
        <<"Missing term may indicate incomplete agreement or extraction failure. Manual review recommended.">>)

\* 3) Check for missing expected terms: the loop over approved_lookup.
RECURSIVE completeness_from(_, _, _, _)
completeness_from(keys, i, approved, executed) ==
  IF i > Len(keys) THEN <<>>
  ELSE (IF incomplete(keys[i], executed)
          THEN <<completeness_issue(keys[i], lookup(approved, keys[i]))>>
          ELSE <<>>)
       \o completeness_from(keys, i + 1, approved, executed)

validate_terms(approved, executed) ==
  LET mismatches == compare_from(1, approved, executed, <<>>)
  IN  IF mismatches.raised # "" THEN mismatches
      ELSE Return(mismatches.value
                    \o clauses_from(1, approved, executed)
                    \o completeness_from(lookup_keys(approved), 1, approved, executed))

ValuesFound == <<"V", "a", "l", "u", "e", "s", " ", "f", "o", "u", "n", "d", ":", " ">>

ValuesColon == <<"V", "a", "l", "u", "e", "s", ":", " ">>

\* The terms of a key, in list order.
terms_of_key(terms, key) == SelectSeq(terms, LAMBDA t : t.key = key)

\* The raw values compared.
values_differ_raw(term_list) ==
  Cardinality({term_list[i].value : i \in 1..Len(term_list)}) > 1

\* The set of normalized values has more than one member.
values_differ(term_list) ==
  Cardinality({_normalize_for_comparison(term_list[i].value) :
                 i \in 1..Len(term_list)}) > 1

multiple_values_issue(key, term_list, src) ==
  LET label      == term_list[1].label
      all_values == join(<<",", " ">>, [i \in 1..Len(term_list) |-> term_list[i].value])
  IN  Issue("MULTIPLE_VALUES", WARN,
            <<"Multiple different values found for ", label, " in ", src, " document">>,
            key, label,
            ValuesFound \o all_values,
            IF src = "EXECUTED" THEN <<>> ELSE ValuesColon \o all_values,
            IF src = "EXECUTED" THEN ValuesColon \o all_values ELSE <<>>,
            <<"Internal inconsistency may indicate drafting errors. Verify which value is authoritative.">>)

\* The loop over terms_by_key.
RECURSIVE consistency_from(_, _, _, _)
consistency_from(keys, i, terms, src) ==
  IF i > Len(keys) THEN <<>>
  ELSE LET term_list == terms_of_key(terms, keys[i])
       IN  (IF Len(term_list) > 1 /\ values_differ(term_list)
              THEN <<multiple_values_issue(keys[i], term_list, src)>>
              ELSE <<>>)
           \o consistency_from(keys, i + 1, terms, src)

check_internal_consistency(terms, src) ==
  consistency_from(lookup_keys(terms), 1, terms, src)

(***************************************************************************)
(* Calls of validate_terms and check_internal_consistency.  The two term   *)
(* lists are the caller's: all pairs of lists over ApprovedPool and        *)
(* ExecutedPool with at most MaxTerms terms together, lists with several   *)
(* terms of one key included.  The pools hold a key of every comparison    *)
(* strategy of the catalog, a key outside the catalog, the clause keys and *)
(* a '_required' key, with values that match and values that do not.       *)
(***************************************************************************)
MaxTerms == 3

Term(key, label, value, evidence) ==
  [key |-> key, label |-> label, value |-> value, evidence_text |-> evidence]

Usd300m == <<"U","S","D"," ","3","0","0",",","0","0","0",",","0","0","0">>

Usd300mPlain == <<"U","S","D"," ","3","0","0","0","0","0","0","0","0">>

Dollar300m == <<"$","3","0","0",",","0","0","0",",","0","0","0">>

Usd6bn == <<"U","S","D"," ","6",",","0","0","0",",","0","0","0",",","0","0","0">>

Bps125 == <<"1","2","5"," ","b","p","s">>

Bps125p1 == <<"1","2","5",".","1"," ","b","p","s">>

BpsGrid == <<"1","0","0","-","1","5","0"," ","b","p","s">>

Iso25Aug == <<"2","0","2","6","-","0","8","-","2","5">>

Iso24Aug == <<"2","0","2","6","-","0","8","-","2","4">>

Long25Aug == <<"A","u","g","u","s","t"," ","2","5",","," ","2","0","2","6">>

BoeingCo == <<"T","h","e"," ","B","o","e","i","n","g"," ","C","o","m","p","a","n","y">>

Boeing == <<"B","o","e","i","n","g">>

Airbus == <<"A","i","r","b","u","s">>

Quarterly == <<"Q","u","a","r","t","e","r","l","y">>

YesUpper == <<"Y", "E", "S">>

ApprovedPool ==
  { Term("facility_amount", "Facility Amount", Usd300m,
         <<"Approved Commitment Amount: USD 300,000,000">>),
    Term("facility_amount", "Commitment", Usd300mPlain,
         <<"Commitment: USD 300000000">>),
    Term("margin_bps", "Applicable Margin", Bps125,
         <<"Applicable Margin: 125 basis points (1.25%) over SOFR">>),
    Term("maturity_date", "Maturity Date", Iso25Aug,
         <<"Termination Date: August 25, 2026">>),
    Term("borrower", "Borrower", BoeingCo,
         <<"Borrower: The Boeing Company, a Delaware corporation">>),
    Term("borrower", "Obligor", Airbus, <<>>),
    Term("covenant_frequency", "Covenant Testing Frequency", Quarterly,
         <<"Testing Frequency: Quarterly">>),
    Term("sanctions_clause_required", "Sanctions Clause Required", Yes,
         <<"Required Provisions: Sanctions compliance clause per bank policy">>),
    Term("bail_in_clause_present", "Bail-In Clause Present", Yes,
         <<"Required Provisions: EU/EEA Bail-In recognition clause per BRRD">>) }

ExecutedPool ==
  { Term("facility_amount", "Facility Amount", Usd6bn,
         <<"aggregate Commitments shall initially equal $6,000,000,000">>),
    Term("facility_amount", "Facility Amount", Dollar300m,
         <<"aggregate Commitments shall initially equal $300,000,000">>),
    Term("margin_bps", "Applicable Margin", Bps125p1, <<"margin: 125.1 bps">>),
    Term("margin_bps", "Applicable Margin", BpsGrid, <<"Level I: 1.000%">>),
    Term("maturity_date", "Maturity Date", Long25Aug,
         <<"\"Maturity Date\" means August 25, 2026">>),
    Term("maturity_date", "Maturity Date", Iso24Aug,
         <<"\"Maturity Date\" means August 24, 2026">>),
    Term("borrower", "Borrower", Boeing, <<"THE BOEING COMPANY (the \"Borrower\")">>),
    Term("borrower", "Borrower", Airbus, <<>>),
    Term("sanctions_clause_present", "Sanctions Clause Present", YesUpper,
         <<"\"Sanctions\" means any sanctions administered or enforced by OFAC">>),
    Term("sanctions_clause_present", "Sanctions Clause Present", No, <<>>),
    Term("bail_in_clause_present", "Bail-In Clause Present", <<"1">>,
         <<"ACKNOWLEDGEMENT AND CONSENT TO BAIL-IN">>) }

InitValidate ==
  /\ \E na \in 0..MaxTerms :
       \E ne \in 0..(MaxTerms - na) :
         /\ approved_terms \in [1..na -> ApprovedPool]
         /\ executed_terms \in [1..ne -> ExecutedPool]
  /\ issues = Pending
  /\ consistency = Pending
  /\ IdleMatch
  /\ IdleExtract
  /\ IdleNormalize
  /\ IdleProcess

ValidateTerms ==
  /\ issues = Pending
  /\ consistency = Pending
  /\ issues' = validate_terms(approved_terms, executed_terms)
  /\ UNCHANGED <<approved_terms, executed_terms, consistency, match_vars, extract_vars,
                 normalize_vars, process_vars>>

CheckInternalConsistency ==
  /\ issues = Pending
  /\ consistency = Pending
  /\ \E src \in {"APPROVED", "EXECUTED"} :
       consistency' =
         [ source |-> src,
           issues |-> check_internal_consistency(
                        IF src = "APPROVED" THEN approved_terms ELSE executed_terms,
                        src) ]
  /\ UNCHANGED <<approved_terms, executed_terms, issues, match_vars, extract_vars,
                 normalize_vars, process_vars>>

NextValidate == ValidateTerms \/ CheckInternalConsistency

SpecValidate == InitValidate /\ [][NextValidate]_vars

(***************************************************************************)
(* Calls of _values_match.  The two values are drawn from MatchValues,     *)
(* which holds amounts in several notations, margins and ratios around the *)
(* tolerance, values without a number, values whose first run of digits    *)
(* and dots is not a number, dates in several formats and entity names;    *)
(* the strategy from the comparison types of the catalog.                  *)
(***************************************************************************)
MatchValues ==
  { <<>>,
    Usd300m, Dollar300m, Usd6bn,
    <<" ","u","s","d","3","0","0",",","0","0","0",",","0","0","0"," ">>,
    Bps125, Bps125p1,
    <<"1","2","5",".","2"," ","b","p","s">>,
    <<"1",",","2","5","0"," ","b","p","s">>,
    <<"1",",","9","9","9"," ","b","p","s">>,
    <<"1","0","0","0">>,
    <<"1","0","0","1">>,
    <<"0",".","5">>,
    <<"0",".","5","0","0","4">>,
    <<"3",".","5","0","x">>,
    <<"m","a","x","."," ","3",".","5","0","x">>,
    <<"n","/","a">>,
    <<"N","/","A"," ">>,
    Iso25Aug, Iso24Aug, Long25Aug,
    <<"2","5","/","0","8","/","2","0","2","6">>,
    BoeingCo, Boeing, Airbus }

ComparisonTypes == {"exact", "numeric", "date", "fuzzy", "contains"}

InitMatch ==
  /\ approved_value \in MatchValues
  /\ executed_value \in MatchValues
  /\ comparison \in ComparisonTypes
  /\ values_matched = Pending
  /\ swapped_matched = Pending
  /\ approved_terms = <<>> /\ executed_terms = <<>>
  /\ issues = Pending /\ consistency = Pending
  /\ IdleExtract
  /\ IdleNormalize
  /\ IdleProcess

ValuesMatch ==
  /\ values_matched = Pending
  /\ values_matched' = _values_match(approved_value, executed_value, comparison)
  /\ UNCHANGED <<approved_value, executed_value, comparison, swapped_matched>>
  /\ UNCHANGED <<approved_terms, executed_terms, issues, consistency>>
  /\ UNCHANGED <<extract_vars, normalize_vars, process_vars>>

\* The same comparison with the executed value passed as approved_val and
\* the approved value as executed_val.
ValuesMatchSwapped ==
  /\ swapped_matched = Pending
  /\ swapped_matched' = _values_match(executed_value, approved_value, comparison)
  /\ UNCHANGED <<approved_value, executed_value, comparison, values_matched>>
  /\ UNCHANGED <<approved_terms, executed_terms, issues, consistency>>
  /\ UNCHANGED <<extract_vars, normalize_vars, process_vars>>

NextMatch == ValuesMatch \/ ValuesMatchSwapped

SpecMatch == InitMatch /\ [][NextMatch]_vars

(***************************************************************************)
(* check_internal_consistency on the list that one call of                 *)
(* extract_terms_from_text returned, with the source tag of that call.     *)
(***************************************************************************)
CheckExtractedTerms ==
  /\ extracted # NotCalled
  /\ consistency = Pending
  /\ consistency' =
       [source |-> source, issues |-> check_internal_consistency(extracted, source)]
  /\ UNCHANGED <<approved_terms, executed_terms, issues, match_vars>>
  /\ UNCHANGED <<extract_vars, normalize_vars, process_vars>>

NextConsistency == ExtractTerms \/ CheckExtractedTerms

SpecConsistency == InitExtract /\ [][NextConsistency]_vars

(***************************************************************************)
(* validate_terms with the list that extract_terms_from_text returned for  *)
(* the executed document as its executed terms.  The catalogs are over     *)
(* ClauseRuleSet, which holds a rule for each required clause, one with a  *)
(* capture group and one without, as the module's catalog does; the        *)
(* approved lists require a clause by its '_required' key, by the clause   *)
(* key itself, or not at all.                                              *)
(***************************************************************************)
ClauseRuleSet ==
  { [key |-> "sanctions_clause_present", label |-> "Sanctions Clause Present",
     patterns |-> <<PatASp>>, extract_group |-> 1, confidence_base |-> 92],
    [key |-> "bail_in_clause_present", label |-> "Bail-In Clause Present",
     patterns |-> <<PatB>>, extract_group |-> 1, confidence_base |-> 92],
    [key |-> "borrower", label |-> "Borrower", patterns |-> <<PatAB>>,
     extract_group |-> 1, confidence_base |-> 90] }

ApprovedLists ==
  { <<>>,
    <<Term("sanctions_clause_required", "Sanctions Clause Required", Yes,
           <<"Required Provisions: Sanctions compliance clause per bank policy">>)>>,
    <<Term("bail_in_clause_present", "Bail-In Clause Present", Yes,
           <<"Required Provisions: EU/EEA Bail-In recognition clause per BRRD">>)>> }

InitClauses ==
  /\ pages \in PageLists
  /\ source = "EXECUTED"
  /\ rules \in SeqsUpTo(ClauseRuleSet, MaxRules)
  /\ extracted = NotCalled
  /\ verify_key = "" /\ expected_value = <<>> /\ verified = Pending
  /\ approved_terms \in ApprovedLists
  /\ executed_terms = <<>>
  /\ issues = Pending
  /\ consistency = Pending
  /\ IdleMatch
  /\ IdleNormalize
  /\ IdleProcess

ValidateExtractedTerms ==
  /\ extracted # NotCalled
  /\ issues = Pending
  /\ issues' = validate_terms(approved_terms, extracted)
  /\ UNCHANGED <<approved_terms, executed_terms, consistency, match_vars>>
  /\ UNCHANGED <<extract_vars, normalize_vars, process_vars>>

NextClauses == ExtractTerms \/ ValidateExtractedTerms

SpecClauses == InitClauses /\ [][NextClauses]_vars

(***************************************************************************)
(* Calls of normalize_term_value                                           *)
(*                                                                         *)
(* The values are every string of at most MaxValueLen characters of        *)
(* ValueAlphabet and the samples below; the keys select each class of      *)
(* normalize_term_value, some by more than one keyword.                    *)
(***************************************************************************)
MaxValueLen == 3

ValueAlphabet == {"0", "1", "5", ".", ",", "%", " ", "x", ":"}

ShortValues == UNION {[1..n -> ValueAlphabet] : n \in 0..MaxValueLen}

SampleValues ==
  { <<"A","u","g","u","s","t"," ","2","5",","," ","2","0","2","6">>,
    <<"A","u","g","u",LongS,"t"," ","2","5",","," ","2","0","2","6">>,
    <<"a","u","g","u","s","t"," ","5"," ","2","0","2","6">>,
    <<"A","u","g"," ","2","5"," ","2","0","2","6">>,
    <<"0","8","/","2","5","/","2","0","2","6">>,
    <<"2","5","/","0","8","/","2","0","2","6">>,
    <<"2","5","-","0","8","-","2","0","2","6">>,
    <<"2","0","2","6","/","8","/","2","5">>,
    <<" ","2","0","2","6","-","0","8","-","2","5","\n">>,
    <<"$","6",",","0","0","0",",","0","0","0",",","0","0","0">>,
    <<"U","S","D"," ","3","0","0"," ","m","i","l","l","i","o","n">>,
    <<"6"," ","b","i","l","l","i","o","n"," ","d","o","l","l","a","r","s">>,
    <<"2",".","5"," ","t","h","o","u",LongS,"a","n","d"," ","e","u","r","o","s">>,
    <<Pound,"0",".","1","2","5">>,
    <<"0",".","0","0","5"," ","C","H","F">>,
    <<"U","S","D"," ","6",",","0","0","0",",","0","0","0",",","0","0","0">>,
    <<"0",".","9","9","9">>,
    <<"3",".","5","0","x">>,
    <<"n","o"," ","a","m","o","u","n","t">>,
    <<"1","2","5"," ","b","p","s">>,
    <<"1",".","2","5","%">>,
    <<"1",".","1","5","%">>,
    <<"S","O","F","R"," ","+"," ","1",".","2","5","%">>,
    <<"1","0","0","-","1","5","0"," ","b","p","s">>,
    <<"5","%"," ","1","0","b","p","s">>,
    <<"1",".","5","%"," ","2","-","3"," ","b","p">>,
    <<"0","7"," ",EnDash," ","1","0"," ","B","a","s","i","s">>,
    <<"1","2",".","7"," ","b","a","s","i","s"," ","p","o","i","n","t","s">>,
    <<"0",".","0","1","2","5">>,
    <<"0",".","2","9">>,
    <<"3",".","5","0"," ","t","o"," ","1",".","0","0">>,
    <<"3",".","5","0",":","1">>,
    <<"3",".","5","X">>,
    <<"1",".","0","0","5","x">>,
    <<"0",".","1","2","5",Times>>,
    <<"Y","e","s">>,
    <<"n","o","t"," ","F","O","U","N","D">>,
    <<"N","o">>,
    <<"U","S"," ","D","o","l","l","a","r","s">>,
    <<"e","u","r","o">>,
    <<" ","y","e","n"," ">>,
    <<" ","T","h","e"," ","B","o","e","i","n","g"," ","C","o","m","p","a","n","y","\n">> }

Values == ShortValues \cup SampleValues

Keys ==
  { <<"m","a","t","u","r","i","t","y","_","d","a","t","e">>,
    <<"f","a","c","i","l","i","t","y","_","a","m","o","u","n","t">>,
    <<"m","a","r","g","i","n","_","b","p","s">>,
    <<"c","o","v","e","n","a","n","t","_","t","o","t","a","l","_","n","e","t","_",
      "l","e","v","e","r","a","g","e">>,
    <<"s","a","n","c","t","i","o","n","s","_","c","l","a","u","s","e","_",
      "p","r","e","s","e","n","t">>,
    <<"c","u","r","r","e","n","c","y">>,
    <<"b","o","r","r","o","w","e","r">>,
    <<"U","p","d","a","t","e","d","_","A","m","o","u","n","t">>,
    <<"b","p","s","_","a","m","o","u","n","t">>,
    <<"c","o","v","e","r","a","g","e","_","r","a","t","i","o","_",
      "r","e","q","u","i","r","e","d">>,
    <<"C","u","r","r","e","n","c","y">> }

InitNormalize ==
  /\ value_key \in Keys
  /\ raw_value \in Values
  /\ normalized_value = Pending
  /\ renormalized_value = Pending
  /\ basis_points = Pending
  /\ IdleExtract
  /\ IdleValidate
  /\ IdleProcess

NormalizeTermValue ==
  /\ normalized_value = Pending
  /\ normalized_value' = normalize_term_value(value_key, raw_value)
  /\ UNCHANGED <<value_key, raw_value, renormalized_value, basis_points, extract_vars,
                 validate_vars, process_vars>>

\* A caller passes the string that the first call returned to a second call
\* with the same key.
NormalizeAgain ==
  /\ normalized_value # Pending
  /\ normalized_value.raised = ""
  /\ renormalized_value = Pending
  /\ renormalized_value' = normalize_term_value(value_key, normalized_value.value)
  /\ UNCHANGED <<value_key, raw_value, normalized_value, basis_points, extract_vars,
                 validate_vars, process_vars>>

NextNormalize == NormalizeTermValue \/ NormalizeAgain

SpecNormalize == InitNormalize /\ [][NextNormalize]_vars

(***************************************************************************)
(* Calls of normalize_basis_points, which returns the string together     *)
(* with the number, on the same values                                     *)
(***************************************************************************)
InitBasisPoints ==
  /\ value_key = <<>>
  /\ raw_value \in Values
  /\ normalized_value = Pending
  /\ renormalized_value = Pending
  /\ basis_points = Pending
  /\ IdleExtract
  /\ IdleValidate
  /\ IdleProcess

NormalizeBasisPoints ==
  /\ basis_points = Pending
  /\ basis_points' = normalize_basis_points(raw_value)
  /\ UNCHANGED <<value_key, raw_value, normalized_value, renormalized_value, extract_vars,
                 validate_vars, process_vars>>

NextBasisPoints == NormalizeBasisPoints

SpecBasisPoints == InitBasisPoints /\ [][NextBasisPoints]_vars

(***************************************************************************)
(* extraction.py                                                           *)
(*                                                                         *)
(* An uploaded file is a record: content is its bytes and stored says      *)
(* whether storage still holds them.  The bytes are given by what          *)
(* pdfplumber makes of them: whether it opens them and the text of each    *)
(* page, the empty string for a page without a text layer.                 *)
(***************************************************************************)
\* The SHA-256 hex digest of the bytes of a file: 64 characters that the
\* bytes determine.  Reading a file that storage has lost raises.
compute_file_hash(file_obj) ==
  IF ~file_obj.stored THEN Raise("FileNotFoundError")
  ELSE Return([sha256 |-> file_obj.content, chars |-> 64])

\* The text of the pages that have text, each followed by a newline.
RECURSIVE pages_text(_)
pages_text(pdf_pages) ==
  IF pdf_pages = <<>> THEN <<>>
  ELSE (IF Head(pdf_pages) # <<>> THEN Head(pdf_pages) \o <<"\n">> ELSE <<>>)
         \o pages_text(Tail(pdf_pages))

extract_text_from_pdf(file_obj, plumber) ==
  IF ~plumber THEN Raise("ImportError")
  ELSE IF ~file_obj.stored THEN Raise("FileNotFoundError")
  ELSE IF ~file_obj.content.opens THEN Raise("ValueError")
  ELSE Return(pages_text(file_obj.content.pages))

\* try: text = extract_text_from_pdf(file_obj) / except Exception: text = ""
text_read(file_obj, plumber) ==
  LET result == extract_text_from_pdf(file_obj, plumber)
  IN IF result.raised # "" THEN <<>> ELSE result.value

ExtractedTermData(key, label, value, source_tag, confidence, evidence_text, evidence_location) ==
  [ key               |-> key,
    label             |-> label,
    value             |-> value,
    source            |-> source_tag,
    confidence        |-> confidence,
    evidence_text     |-> evidence_text,
    evidence_location |-> evidence_location ]

Revolving364Day ==
  <<"3", "6", "4", "-", "D", "a", "y", " ", "R", "e", "v", "o", "l", "v",
    "i", "n", "g", " ", "C", "r", "e", "d", "i", "t", " ", "F", "a", "c",
    "i", "l", "i", "t", "y">>

UsdCode ==
  <<"U", "S", "D">>

Sofr ==
  <<"S", "O", "F", "R">>

BpsRatingGrid ==
  <<"1", "0", "0", "-", "1", "5", "0", " ", "b", "p", "s", " ", "(", "R",
    "a", "t", "i", "n", "g", " ", "G", "r", "i", "d", ")">>

Ratio350 ==
  <<"3", ".", "5", "0", "x">>

NotStated ==
  <<"N", "o", "t", " ", "E", "x", "p", "l", "i", "c", "i", "t", "l", "y",
    " ", "S", "t", "a", "t", "e", "d">>

approved_terms_data ==
  <<
    [ key               |-> "borrower",
      label             |-> "Borrower",
      value             |-> BoeingCo,
      evidence_text     |->
        <<"Borrower: The Boeing Company, a Delaware corporation">>,
      evidence_location |-> "Page 1, Section: Parties",
      confidence        |-> 100 ],
    [ key               |-> "facility_type",
      label             |-> "Facility Type",
      value             |-> Revolving364Day,
      evidence_text     |->
        <<"Facility Type: 364-Day Revolving Credit Facility">>,
      evidence_location |-> "Page 1, Section: Facility Terms",
      confidence        |-> 100 ],
    [ key               |-> "facility_amount",
      label             |-> "Facility Amount",
      value             |-> Usd300m,
      evidence_text     |->
        <<"Approved Commitment Amount: USD 300,000,000 (Three ",
          "Hundred Million Dollars)">>,
      evidence_location |-> "Page 1, Section: Facility Terms",
      confidence        |-> 100 ],
    [ key               |-> "currency",
      label             |-> "Currency",
      value             |-> UsdCode,
      evidence_text     |->
        <<"Currency: United States Dollars (USD)">>,
      evidence_location |-> "Page 1, Section: Facility Terms",
      confidence        |-> 100 ],
    [ key               |-> "maturity_date",
      label             |-> "Maturity Date",
      value             |-> Iso25Aug,
      evidence_text     |->
        <<"Termination Date: August 25, 2026 (364 days from Closing)">>,
      evidence_location |-> "Page 1, Section: Facility Terms",
      confidence        |-> 100 ],
    [ key               |-> "benchmark",
      label             |-> "Interest Rate Benchmark",
      value             |-> Sofr,
      evidence_text     |->
        <<"Benchmark Rate: Term SOFR (Secured Overnight Financing ",
          "Rate)">>,
      evidence_location |-> "Page 2, Section: Pricing",
      confidence        |-> 100 ],
    [ key               |-> "margin_bps",
      label             |-> "Applicable Margin",
      value             |-> Bps125,
      evidence_text     |->
        <<"Applicable Margin: 125 basis points (1.25%) over SOFR">>,
      evidence_location |-> "Page 2, Section: Pricing",
      confidence        |-> 100 ],
    [ key               |-> "covenant_total_net_leverage",
      label             |-> "Total Net Leverage Covenant",
      value             |-> Ratio350,
      evidence_text     |->
        <<"Maximum Total Net Leverage Ratio: 3.50 to 1.00">>,
      evidence_location |-> "Page 2, Section: Financial Covenants",
      confidence        |-> 100 ],
    [ key               |-> "covenant_frequency",
      label             |-> "Covenant Testing Frequency",
      value             |-> Quarterly,
      evidence_text     |->
        <<"Testing Frequency: Quarterly, based on trailing four ",
          "fiscal quarters">>,
      evidence_location |-> "Page 2, Section: Financial Covenants",
      confidence        |-> 100 ],
    [ key               |-> "sanctions_clause_required",
      label             |-> "Sanctions Clause Required",
      value             |-> Yes,
      evidence_text     |->
        <<"Required Provisions: Sanctions compliance clause per bank ",
          "policy">>,
      evidence_location |-> "Page 3, Section: Required Provisions",
      confidence        |-> 100 ],
    [ key               |-> "bail_in_clause_required",
      label             |-> "Bail-In Clause Required",
      value             |-> Yes,
      evidence_text     |->
        <<"Required Provisions: EU/EEA Bail-In recognition clause ",
          "per BRRD">>,
      evidence_location |-> "Page 3, Section: Required Provisions",
      confidence        |-> 100 ]
  >>

\* The text of the file is read and not used: the list is the same for
\* every file.
extract_approved_terms(file_obj, plumber) ==
  LET text == text_read(file_obj, plumber)
  IN [ i \in 1..Len(approved_terms_data) |->
         LET term_data == approved_terms_data[i]
         IN ExtractedTermData(term_data.key, term_data.label, term_data.value,
                              "APPROVED", term_data.confidence,
                              term_data.evidence_text, term_data.evidence_location) ]

\* re.search(r'THE BOEING COMPANY|Boeing Company', text, re.IGNORECASE): the
\* second alternative occurs in the first, so the search finds a match
\* exactly when the text holds "boeing company" in any case.
borrower_match(text) ==
  Contains(fold(text),
           <<"b", "o", "e", "i", "n", "g", " ", "c", "o", "m", "p", "a", "n", "y">>)

\* The text of the file and the result of the searches are not used: every
\* term is appended whatever the file holds.
extract_executed_terms(file_obj, plumber) ==
  LET text == text_read(file_obj, plumber)
      found == borrower_match(text)
  IN
  <<
    ExtractedTermData("borrower", "Borrower", BoeingCo, "EXECUTED", 98,
      <<"THE BOEING COMPANY, a Delaware corporation (the ",
         "\"Borrower\")">>,
      "Page 1, Preamble"),
    ExtractedTermData("facility_type", "Facility Type",
                      Revolving364Day, "EXECUTED", 95,
      <<"364-DAY CREDIT AGREEMENT... revolving credit facility">>,
      "Page 1, Title and Section 2.01"),
    ExtractedTermData("facility_amount", "Facility Amount",
                      Usd6bn, "EXECUTED", 95,
      <<"\"Aggregate Commitments\" means the aggregate of the ",
         "Commitments of all Lenders, which aggregate Commitments ",
         "shall initially equal $6,000,000,000">>,
      "Page 5, Section 1.01 Definitions - \"Aggregate Commitments\""),
    ExtractedTermData("currency", "Currency", UsdCode, "EXECUTED", 98,
      <<"Dollars or $ refers to lawful money of the United States ",
         "of America">>,
      "Page 8, Section 1.01 Definitions"),
    ExtractedTermData("maturity_date", "Maturity Date",
                      Iso24Aug, "EXECUTED", 92,
      <<"\"Maturity Date\" means August 24, 2026">>,
      "Page 12, Section 1.01 Definitions - \"Maturity Date\""),
    ExtractedTermData("benchmark", "Interest Rate Benchmark",
                      Sofr, "EXECUTED", 98,
      <<"\"Term SOFR\" means, for any Interest Period, the Term SOFR ",
         "Reference Rate for a tenor comparable to such Interest ",
         "Period">>,
      "Page 18, Section 1.01 Definitions - \"Term SOFR\""),
    ExtractedTermData("margin_bps", "Applicable Margin",
                      BpsRatingGrid, "EXECUTED", 88,
      <<"Applicable Rate means, for any day, with respect to any ",
         "Term Benchmark Loan, the applicable rate per annum set ",
         "forth in the table below based on the Debt Ratings: Level ",
         "I (A+/A1): 1.000%, Level II (A/A2): 1.125%, Level III ",
         "(A-/A3): 1.250%">>,
      "Page 5, Section 1.01 Definitions - \"Applicable Rate\""),
    ExtractedTermData("covenant_total_net_leverage", "Total Net Leverage Covenant",
                      Ratio350, "EXECUTED", 90,
      <<"Total Leverage Ratio. The Borrower will not permit the ",
         "Total Leverage Ratio... to exceed 3.50 to 1.00">>,
      "Page 48, Section 6.08 - Financial Covenant"),
    ExtractedTermData("covenant_frequency", "Covenant Testing Frequency",
                      NotStated, "EXECUTED", 75,
      <<"The Borrower will deliver... financial statements... ",
         "(implied periodic testing)">>,
      "Page 42, Section 5.01 - Financial Statements"),
    ExtractedTermData("sanctions_clause_present", "Sanctions Clause Present",
                      Yes, "EXECUTED", 95,
      <<"\"Sanctions\" means any sanctions administered or enforced ",
         "by OFAC, the U.S. Department of State, the United Nations ",
         "Security Council, the European Union...">>,
      "Page 16, Section 1.01 Definitions - \"Sanctions\""),
    ExtractedTermData("bail_in_clause_present", "Bail-In Clause Present",
                      Yes, "EXECUTED", 95,
      <<"ARTICLE X ACKNOWLEDGEMENT AND CONSENT TO BAIL-IN OF ",
         "AFFECTED FINANCIAL INSTITUTIONS">>,
      "Page 82, Article X")
  >>

(***************************************************************************)
(* extraction.py: validate_terms, which views.py imports under the name    *)
(* validate_terms_comparison.  The six checks run in this order; each      *)
(* appends at most one issue.                                              *)
(***************************************************************************)
\* approved_lookup.get(key, ExtractedTermData('', ...)).evidence_text
evidence_or_blank(term_list, key) ==
  IF key \in KeysOf(term_list) THEN lookup(term_list, key).evidence_text ELSE <<>>

in_both(key, approved, executed) ==
  key \in KeysOf(approved) /\ key \in KeysOf(executed)

\* 1) and 2): a HIGH mismatch when the two value strings are not equal.
value_mismatch(key, label, impact, approved, executed) ==
  IF in_both(key, approved, executed)
       /\ lookup(approved, key).value # lookup(executed, key).value
    THEN <<Issue("MISMATCH", HIGH,
                 <<label, " differs between Approved Credit Summary and Executed Agreement">>,
                 key, label,
                 mismatch_evidence(lookup(approved, key).value, lookup(executed, key).value),
                 lookup(approved, key).evidence_text,
                 lookup(executed, key).evidence_text,
                 impact)>>
    ELSE <<>>

FixedNote == <<" ", "(", "f", "i", "x", "e", "d", ")">>

GridNote == 
  <<" ", "(", "v", "a", "r", "i", "a", "b", "l", "e", " ", "g", "r", "i", "d", ")">>

\* '125' not in executed_val or 'Grid' in executed_val
margin_deviates(executed_val) ==
  \/ ~Contains(executed_val, <<"1", "2", "5">>)
  \/ Contains(executed_val, <<"G", "r", "i", "d">>)

\* 3) the margin: a WARN mismatch, whatever the approved value is.
margin_deviation(approved, executed) ==
  IF in_both("margin_bps", approved, executed)
       /\ margin_deviates(lookup(executed, "margin_bps").value)
    THEN <<Issue("MISMATCH", WARN,
                 <<"Applicable Margin structure differs from approved fixed rate">>,
                 "margin_bps", "Applicable Margin",
                 ApprovedColon \o lookup(approved, "margin_bps").value \o FixedNote
                   \o VsExecutedColon \o lookup(executed, "margin_bps").value \o GridNote,
                 lookup(approved, "margin_bps").evidence_text,
                 lookup(executed, "margin_bps").evidence_text,
                 <<"Pricing structure uses rating-based grid instead of fixed margin. ",
                   "May result in different interest expense under rating changes.">>)>>
    ELSE <<>>

\* 4) and 5): an INFO issue when the executed clause term has the value 'Yes'.
clause_presence(key, required_key, label, message, evidence, impact, approved, executed) ==
  IF key \in KeysOf(executed) /\ lookup(executed, key).value = Yes
    THEN <<Issue("CLAUSE_PRESENT", INFO, message, key, label, evidence,
                 evidence_or_blank(approved, required_key),
                 lookup(executed, key).evidence_text,
                 impact)>>
    ELSE <<>>

\* 'Not' in freq_val or freq_val.lower() == 'missing'
frequency_unstated(freq_val) ==
  \/ Contains(freq_val, <<"N", "o", "t">>)
  \/ lower(freq_val) = <<"m", "i", "s", "s", "i", "n", "g">>

\* 6) the covenant testing frequency of the executed document.
frequency_completeness(approved, executed) ==
  IF /\ "covenant_total_net_leverage" \in KeysOf(executed)
     /\ "covenant_frequency" \in KeysOf(executed)
     /\ frequency_unstated(lookup(executed, "covenant_frequency").value)
    THEN <<Issue("COMPLETENESS", WARN,
                 <<"Covenant testing frequency is not explicitly stated in executed agreement">>,
                 "covenant_frequency", "Covenant Testing Frequency",
                 <<"Approved: Quarterly testing vs Executed: ",
                   "Testing frequency not explicitly defined">>,
                 evidence_or_blank(approved, "covenant_frequency"),
                 lookup(executed, "covenant_frequency").evidence_text,
                 <<"Ambiguous testing frequency may lead to disputes. ",
                   "Recommend clarification or side letter.">>)>>
    ELSE <<>>

validate_terms_comparison(approved, executed) ==
  value_mismatch("facility_amount", "Facility Amount",
                 <<"Material economic divergence exceeds approved credit limit. ",
                   "Requires immediate credit committee escalation and ",
                   "re-approval before drawdown.">>,
                 approved, executed)
  \o value_mismatch("maturity_date", "Maturity Date",
                    <<"Tenor mismatch affects facility classification and liquidity ",
                      "reporting. Verify whether deviation was authorized.">>,
                    approved, executed)
  \o margin_deviation(approved, executed)
  \o clause_presence("bail_in_clause_present", "bail_in_clause_required", "Bail-In Clause",
                     <<"EU/EEA Bail-In recognition clause is present in executed agreement">>,
                     <<"Bail-In acknowledgement clause found in Article X">>,
                     <<"Compliant with Article 55 BRRD requirements for contracts ",
                       "governed by non-EU law.">>,
                     approved, executed)
  \o clause_presence("sanctions_clause_present", "sanctions_clause_required",
                     "Sanctions Clause",
                     <<"Sanctions compliance clause is present in executed agreement">>,
                     <<"Comprehensive Sanctions definitions and representations found">>,
                     <<"Compliant with OFAC, EU, and UN sanctions screening requirements.">>,
                     approved, executed)
  \o frequency_completeness(approved, executed)

(***************************************************************************)
(* models.py, serializers.py and views.py: a review and its process action *)
(*                                                                         *)
(* The review is the one that ReviewCreateSerializer.create has stored:    *)
(* an executed file with its name and hash, a term sheet or none, status   *)
(* UPLOADED and the UPLOAD audit event.  Storage may have lost a file      *)
(* since.  A process request works on its own Review object, loaded when   *)
(* the request starts; save() writes every field of that object to the     *)
(* row.  Nothing wraps a request in a transaction: each save() and each    *)
(* loop of create() calls is one step, and the steps of several requests   *)
(* interleave.                                                             *)
(***************************************************************************)
MaxRequests == 2

ReviewStatus == {"UPLOADED", "PROCESSING", "COMPLETE", "FAILED"}

AgreementPage ==
  <<"T", "H", "E", " ", "B", "O", "E", "I", "N", "G", " ", "C", "O", "M", "P", "A", "N", "Y">>

OtherPage == <<"L", "o", "r", "e", "m">>

NotPdf == [opens |-> FALSE, pages |-> <<>>]

Pdf(pdf_pages) == [opens |-> TRUE, pages |-> pdf_pages]

\* The bytes of an upload: no PDF, a PDF of one page without a text layer,
\* a page of the agreement, a page of another document and a blank page.
Uploads == {NotPdf, Pdf(<<<<>>>>), Pdf(<<AgreementPage>>), Pdf(<<OtherPage, <<>>>>)}

StoredFile(content) == [content |-> content, stored |-> TRUE]

LostFile(content) == [content |-> content, stored |-> FALSE]

ExecutedFiles == {StoredFile(content) : content \in Uploads} \cup {LostFile(NotPdf)}

SummaryPage ==
  <<"B", "o", "r", "r", "o", "w", "e", "r", ":", " ", "T", "h", "e", " ",
    "B", "o", "e", "i", "n", "g", " ", "C", "o", "m", "p", "a", "n", "y">>

TermSheetFiles ==
  {StoredFile(NotPdf), StoredFile(Pdf(<<SummaryPage>>)), LostFile(NotPdf)}

\* hash[:16]
first_16(hash) == [hash EXCEPT !.chars = Min(16, hash.chars)]

AuditEvent(actor, action, details, hash) ==
  [actor |-> actor, action |-> action, details |-> details, hash |-> hash]

\* The row and the audit event that ReviewCreateSerializer.create stores.
created_review(executed_file, term_sheet_file) ==
  [ status               |-> "UPLOADED",
    borrower_name        |-> "",
    facility_name        |-> "",
    executed_file_name   |-> "agreement.pdf",
    executed_file        |-> Some("executed"),
    executed_file_hash   |-> [sha256 |-> executed_file.content, chars |-> 64],
    term_sheet_file_name |->
      IF term_sheet_file = None THEN None ELSE Some("termsheet.pdf"),
    term_sheet_file      |-> IF term_sheet_file = None THEN None ELSE Some("term_sheet"),
    term_sheet_file_hash |->
      IF term_sheet_file = None THEN None
      ELSE [sha256 |-> term_sheet_file.content, chars |-> 64] ]

upload_event(executed_file, term_sheet_file) ==
  AuditEvent("System User", "UPLOAD",
             <<"Uploaded ", "agreement.pdf">>
               \o (IF term_sheet_file = None THEN <<>> ELSE <<" and ", "termsheet.pdf">>),
             first_16([sha256 |-> executed_file.content, chars |-> 64]))

Waiting == [pc |-> "process", review |-> None, approved_terms_list |-> <<>>,
            executed_terms_list |-> <<>>, response |-> None]

InitProcess ==
  /\ \E executed_file \in ExecutedFiles, term_sheet_file \in TermSheetFiles \cup {None} :
       /\ documents = [executed |-> executed_file, term_sheet |-> term_sheet_file]
       /\ review = created_review(executed_file, term_sheet_file)
       /\ audit_log = <<upload_event(executed_file, term_sheet_file)>>
  /\ pdfplumber \in BOOLEAN
  /\ term_rows = <<>>
  /\ issue_rows = <<>>
  /\ requests = [r \in 1..MaxRequests |-> Waiting]
  /\ IdleExtract
  /\ IdleValidate
  /\ IdleNormalize

\* bool(review.term_sheet_file_name), bool(review.executed_file_name)
has_term_sheet(obj) == obj.term_sheet_file_name \notin {None, Some("")}

has_executed(obj) == obj.executed_file_name # ""

\* has_term_sheet and review.term_sheet_file, and the same for the executed
\* file: a file field is true when it names a file.
reads_term_sheet(obj) == has_term_sheet(obj) /\ obj.term_sheet_file # None

reads_executed(obj) == has_executed(obj) /\ obj.executed_file # None

Response(status_code, data) == [status_code |-> status_code, data |-> data]

\* The request r moves to position pc with its Review object set to obj.
Moved(r, pc, obj) == [requests EXCEPT ![r].pc = pc, ![r].review = obj]

\* An exception leaves the handler: the framework answers with status 500.
Raised(r, exception) ==
  [requests EXCEPT ![r].pc = "done",
                   ![r].response = Some(Response(500, [exception |-> exception]))]

\* process: get_object() and the check of the status of the loaded object.
Process(r) ==
  /\ requests[r].pc = "process"
  /\ requests' =
       IF review.status = "COMPLETE"
         THEN [requests EXCEPT
                 ![r].pc = "done",
                 ![r].review = review,
                 ![r].response =
                   Some(Response(400, [error |-> "Review has already been processed"]))]
         ELSE Moved(r, "save_processing", review)
  /\ UNCHANGED <<review, documents, pdfplumber, term_rows, issue_rows, audit_log>>
  /\ UNCHANGED <<extract_vars, validate_vars, normalize_vars>>

\* process: review.status = ReviewStatus.PROCESSING; review.save()
SaveProcessing(r) ==
  /\ requests[r].pc = "save_processing"
  /\ LET obj == [requests[r].review EXCEPT !.status = "PROCESSING"]
     IN /\ review' = obj
        /\ requests' = Moved(r, "compute_hashes", obj)
  /\ UNCHANGED <<documents, pdfplumber, term_rows, issue_rows, audit_log>>
  /\ UNCHANGED <<extract_vars, validate_vars, normalize_vars>>

\* _run_extraction: the file hashes and the borrower and facility names, set
\* on the object of the request only.
ComputeHashes(r) ==
  /\ requests[r].pc = "compute_hashes"
  /\ LET obj == requests[r].review
         executed_hash ==
           IF reads_executed(obj) THEN compute_file_hash(documents.executed)
           ELSE Return(obj.executed_file_hash)
         term_sheet_hash ==
           IF reads_term_sheet(obj) THEN compute_file_hash(documents.term_sheet)
           ELSE Return(obj.term_sheet_file_hash)
     IN requests' =
          IF executed_hash.raised # "" THEN Raised(r, executed_hash.raised)
          ELSE IF term_sheet_hash.raised # "" THEN Raised(r, term_sheet_hash.raised)
          ELSE Moved(r, "approved_terms",
                     [obj EXCEPT !.executed_file_hash = executed_hash.value,
                                 !.term_sheet_file_hash = term_sheet_hash.value,
                                 !.borrower_name = "The Boeing Company",
                                 !.facility_name =
                                   "364-Day Credit Agreement (5-Year Term Loan)"])
  /\ UNCHANGED <<review, documents, pdfplumber, term_rows, issue_rows, audit_log>>
  /\ UNCHANGED <<extract_vars, validate_vars, normalize_vars>>

\* ExtractedTerm.objects.create(...) of a term of an extractor.
ExtractedTerm(term_data, source_type, is_match) ==
  [ key               |-> term_data.key,
    label             |-> term_data.label,
    value             |-> term_data.value,
    source            |-> source_type,
    confidence        |-> term_data.confidence,
    is_match          |-> is_match,
    evidence_text     |-> term_data.evidence_text,
    evidence_location |-> term_data.evidence_location ]

\* _run_extraction: the approved terms and their rows.
CreateApprovedTerms(r) ==
  /\ requests[r].pc = "approved_terms"
  /\ LET obj == requests[r].review
         approved_list ==
           IF reads_term_sheet(obj)
             THEN extract_approved_terms(documents.term_sheet, pdfplumber)
             ELSE <<>>
     IN /\ term_rows' =
             term_rows \o [i \in 1..Len(approved_list) |->
                             ExtractedTerm(approved_list[i], "APPROVED", TRUE)]
        /\ requests' = [requests EXCEPT ![r].pc = "executed_terms",
                                        ![r].approved_terms_list = approved_list]
  /\ UNCHANGED <<review, documents, pdfplumber, issue_rows, audit_log>>
  /\ UNCHANGED <<extract_vars, validate_vars, normalize_vars>>

\* An executed term matches unless an approved term of its key has another
\* value string.
term_is_match(term_data, approved_list) ==
  IF term_data.key \in KeysOf(approved_list)
    THEN term_data.value = lookup(approved_list, term_data.key).value
    ELSE TRUE

\* _run_extraction: the executed terms and their rows.
CreateExecutedTerms(r) ==
  /\ requests[r].pc = "executed_terms"
  /\ LET obj == requests[r].review
         executed_list ==
           IF reads_executed(obj)
             THEN extract_executed_terms(documents.executed, pdfplumber)
             ELSE <<>>
     IN /\ term_rows' =
             term_rows \o [i \in 1..Len(executed_list) |->
                             ExtractedTerm(executed_list[i], "EXECUTED",
                                           term_is_match(executed_list[i],
                                                         requests[r].approved_terms_list))]
        /\ requests' = [requests EXCEPT ![r].pc = "issues",
                                        ![r].executed_terms_list = executed_list]
  /\ UNCHANGED <<review, documents, pdfplumber, issue_rows, audit_log>>
  /\ UNCHANGED <<extract_vars, validate_vars, normalize_vars>>

\* _run_extraction: the issues of the comparison and their rows, when the
\* review names a term sheet.
CreateIssues(r) ==
  /\ requests[r].pc = "issues"
  /\ LET found ==
           IF has_term_sheet(requests[r].review)
             THEN validate_terms_comparison(requests[r].approved_terms_list,
                                            requests[r].executed_terms_list)
             ELSE <<>>
     IN issue_rows' = issue_rows \o found
  /\ requests' = [requests EXCEPT ![r].pc = "audit_extract"]
  /\ UNCHANGED <<review, documents, pdfplumber, term_rows, audit_log>>
  /\ UNCHANGED <<extract_vars, validate_vars, normalize_vars>>

\* hash[:16] if hash else None
hash_prefix(hash) == IF hash = None THEN None ELSE first_16(hash)

\* _run_extraction: the EXTRACT audit event.
AuditExtract(r) ==
  /\ requests[r].pc = "audit_extract"
  /\ LET obj == requests[r].review
     IN /\ audit_log' =
             Append(audit_log,
                    AuditEvent("DocConform Engine", "EXTRACT",
                               <<"Extracted ">>
                                 \o str_of_nat(Len(requests[r].executed_terms_list))
                                 \o <<" key terms from executed agreement.">>,
                               hash_prefix(obj.executed_file_hash)))
        /\ requests' =
             [requests EXCEPT
                ![r].pc = IF has_term_sheet(obj) THEN "audit_validate" ELSE "save_complete"]
  /\ UNCHANGED <<review, documents, pdfplumber, term_rows, issue_rows>>
  /\ UNCHANGED <<extract_vars, validate_vars, normalize_vars>>

\* _run_extraction: the VALIDATE audit event, with the number of Issue rows
\* that the review has when the event is written.
AuditValidate(r) ==
  /\ requests[r].pc = "audit_validate"
  /\ LET obj == requests[r].review
     IN audit_log' =
          Append(audit_log,
                 AuditEvent("DocConform Engine", "VALIDATE",
                            <<"Validated against ", obj.term_sheet_file_name.value,
                              ". Found ">>
                              \o str_of_nat(Len(issue_rows)) \o <<" issues.">>,
                            hash_prefix(obj.term_sheet_file_hash)))
  /\ requests' = [requests EXCEPT ![r].pc = "save_complete"]
  /\ UNCHANGED <<review, documents, pdfplumber, term_rows, issue_rows>>
  /\ UNCHANGED <<extract_vars, validate_vars, normalize_vars>>

\* _run_extraction: review.status = ReviewStatus.COMPLETE; review.save(), and
\* the response of process with the serialized object.
SaveComplete(r) ==
  /\ requests[r].pc = "save_complete"
  /\ LET obj == [requests[r].review EXCEPT !.status = "COMPLETE"]
     IN /\ review' = obj
        /\ requests' = [requests EXCEPT ![r].pc = "done",
                                        ![r].review = obj,
                                        ![r].response = Some(Response(200, obj))]
  /\ UNCHANGED <<documents, pdfplumber, term_rows, issue_rows, audit_log>>
  /\ UNCHANGED <<extract_vars, validate_vars, normalize_vars>>

NextProcess ==
  \E r \in 1..MaxRequests :
    \/ Process(r)
    \/ SaveProcessing(r)
    \/ ComputeHashes(r)
    \/ CreateApprovedTerms(r)
    \/ CreateExecutedTerms(r)
    \/ CreateIssues(r)
    \/ AuditExtract(r)
    \/ AuditValidate(r)
    \/ SaveComplete(r)

SpecProcess == InitProcess /\ [][NextProcess]_vars

(***************************************************************************)
(* Properties of validate_terms and check_internal_consistency             *)
(*                                                                         *)
(* A term list is read as the set the function builds from it: of several  *)
(* terms with one key the last one is the term of the key.                 *)
(***************************************************************************)
Validated == issues # Pending

AllKeys ==
  RuleKeys \cup KeysOf(approved_terms) \cup KeysOf(executed_terms)
    \cup {REQUIRED_CLAUSES[i].key : i \in 1..Len(REQUIRED_CLAUSES)}

\* The indices of the issues of a code and key in a list of issues.
IssuesOf(list, code, key) ==
  {i \in 1..Len(list) : list[i].code = code /\ list[i].related_term_key = key}

RuleOf(key) == VALIDATION_RULES[CHOOSE i \in 1..Len(VALIDATION_RULES) :
                                  VALIDATION_RULES[i].key = key]

\* The two values of a catalog key present in both sets do not match under
\* the strategy of the key.
Differs(key) ==
  /\ key \in RuleKeys
  /\ key \in KeysOf(approved_terms)
  /\ key \in KeysOf(executed_terms)
  /\ LET same == _values_match(lookup(approved_terms, key).value,
                               lookup(executed_terms, key).value,
                               RuleOf(key).comparison)
     IN  same.raised = "" /\ ~same.value

ExampleEvidence ==
  <<"A","p","p","r","o","v","e","d",":"," ","U","S","D"," ","3","0","0",",",
    "0","0","0",",","0","0","0"," ","v","s"," ","E","x","e","c","u","t","e","d",
    ":"," ","U","S","D"," ","6",",","0","0","0",",","0","0","0",",","0","0","0">>

\* C4: validate_terms returns a MISMATCH issue for a key exactly when the key
\* is in VALIDATION_RULES, is present in both term sets and the two values do
\* not match under the key's comparison strategy; a key has at most one
\* MISMATCH; its severity is HIGH exactly when the rule is flagged
\* high_severity and WARN otherwise; its evidence is
\* 'Approved: <approved value> vs Executed: <executed value>'.  With
\* facility_amount 'USD 300,000,000' approved and 'USD 6,000,000,000'
\* executed there is one HIGH MISMATCH with exactly that evidence.
C4_Mismatch ==
  Validated =>
    /\ issues.raised = ""
    /\ \A key \in AllKeys :
         LET found == IssuesOf(issues.value, "MISMATCH", key)
         IN  /\ Cardinality(found) <= 1
             /\ (found # {}) <=> Differs(key)
             /\ \A i \in found :
                  /\ issues.value[i].severity =
                       (IF RuleOf(key).high_severity THEN "HIGH" ELSE "WARN")
                  /\ issues.value[i].evidence =
                       <<"A","p","p","r","o","v","e","d",":"," ">>
                         \o lookup(approved_terms, key).value
                         \o <<" ","v","s"," ","E","x","e","c","u","t","e","d",":"," ">>
                         \o lookup(executed_terms, key).value
    /\ (/\ "facility_amount" \in KeysOf(approved_terms)
        /\ "facility_amount" \in KeysOf(executed_terms)
        /\ lookup(approved_terms, "facility_amount").value = Usd300m
        /\ lookup(executed_terms, "facility_amount").value = Usd6bn)
         => \E i \in 1..Len(issues.value) :
              /\ IssuesOf(issues.value, "MISMATCH", "facility_amount") = {i}
              /\ issues.value[i].severity = "HIGH"
              /\ issues.value[i].evidence = ExampleEvidence

\* The executed set holds the facility amount twice, the approved amount
\* first and another amount last: the call has returned one issue, the HIGH
\* mismatch of the example.
C4_Witness ==
  /\ Validated
  /\ Len(approved_terms) = 1
  /\ Len(terms_of_key(executed_terms, "facility_amount")) = 2
  /\ Len(issues.value) = 1
  /\ issues.value[1].code = "MISMATCH"
  /\ issues.value[1].severity = "HIGH"
  /\ issues.value[1].evidence = ExampleEvidence

ClaimAffirmative ==
  { <<"y","e","s">>, <<"t","r","u","e">>, <<"p","r","e","s","e","n","t">>, <<"1">> }

ClausePresent(clause) ==
  /\ clause.key \in KeysOf(executed_terms)
  /\ lower(lookup(executed_terms, clause.key).value) \in ClaimAffirmative

ClauseRequired(clause) ==
  \/ clause.key \in KeysOf(approved_terms)
  \/ clause.required_key \in KeysOf(approved_terms)

\* C5: for each entry of REQUIRED_CLAUSES validate_terms returns exactly one
\* CLAUSE_PRESENT issue (INFO) when the executed set has a term of the clause
\* key whose value is yes, true, present or 1 in any letter case; otherwise
\* exactly one MISSING_CLAUSE issue (WARN) when the approved set holds the
\* clause key or its '_required' sibling; otherwise no issue for the clause.
\* The two codes are never both returned for one clause.
C5_Clauses ==
  Validated =>
    /\ issues.raised = ""
    /\ \A c \in 1..Len(REQUIRED_CLAUSES) :
         LET clause  == REQUIRED_CLAUSES[c]
             present == IssuesOf(issues.value, "CLAUSE_PRESENT", clause.key)
             missing == IssuesOf(issues.value, "MISSING_CLAUSE", clause.key)
         IN  /\ present = {} \/ missing = {}
             /\ \A i \in present : issues.value[i].severity = "INFO"
             /\ \A i \in missing : issues.value[i].severity = "WARN"
             /\ IF ClausePresent(clause)
                  THEN Cardinality(present) = 1 /\ missing = {}
                ELSE IF ClauseRequired(clause)
                  THEN Cardinality(missing) = 1 /\ present = {}
                ELSE present = {} /\ missing = {}

\* One call reports the bail-in clause as present and the sanctions clause,
\* required by the approved set and answered 'No' in the executed set, as
\* missing.
C5_Witness ==
  /\ Validated
  /\ "sanctions_clause_present" \in KeysOf(executed_terms)
  /\ IssuesOf(issues.value, "MISSING_CLAUSE", "sanctions_clause_present") # {}
  /\ IssuesOf(issues.value, "CLAUSE_PRESENT", "bail_in_clause_present") # {}

\* C6: validate_terms returns exactly one COMPLETENESS issue (WARN, evidence
\* 'Approved: Found vs Executed: Not found') for every key that is in the
\* approved set, is in VALIDATION_RULES and is absent from the executed set,
\* and none for any other key; no key gets both a MISMATCH and a
\* COMPLETENESS issue.
C6_Completeness ==
  Validated =>
    /\ issues.raised = ""
    /\ \A key \in AllKeys :
         LET found == IssuesOf(issues.value, "COMPLETENESS", key)
         IN  /\ IF /\ key \in KeysOf(approved_terms)
                   /\ key \in RuleKeys
                   /\ key \notin KeysOf(executed_terms)
                  THEN Cardinality(found) = 1
                  ELSE found = {}
             /\ \A i \in found :
                  /\ issues.value[i].severity = "WARN"
                  /\ issues.value[i].evidence =
                       <<"Approved: Found vs Executed: Not found">>
             /\ found = {} \/ IssuesOf(issues.value, "MISMATCH", key) = {}

\* The approved set holds a catalog key twice and a key outside the catalog,
\* the executed set holds neither: one COMPLETENESS issue is returned.
C6_Witness ==
  /\ Validated
  /\ Len(approved_terms) = 3
  /\ Len(terms_of_key(approved_terms, "borrower")) = 2
  /\ "covenant_frequency" \in KeysOf(approved_terms)
  /\ executed_terms = <<>>
  /\ Len(issues.value) = 1
  /\ issues.value[1].code = "COMPLETENESS"

\* C7: with the program's catalog, when the approved set holds a
\* covenant_frequency term and the executed set holds none, validate_terms
\* returns exactly one COMPLETENESS issue, severity WARN, for
\* covenant_frequency.
C7_CovenantFrequency ==
  (/\ Validated
   /\ "covenant_frequency" \in KeysOf(approved_terms)
   /\ "covenant_frequency" \notin KeysOf(executed_terms))
    => /\ issues.raised = ""
       /\ Cardinality(IssuesOf(issues.value, "COMPLETENESS", "covenant_frequency")) = 1
       /\ \A i \in IssuesOf(issues.value, "COMPLETENESS", "covenant_frequency") :
            issues.value[i].severity = "WARN"

Checked == consistency # Pending

CheckedTerms ==
  IF consistency.source = "APPROVED" THEN approved_terms ELSE executed_terms

\* The raw values of the terms of a key, in list order, separated by ', '.
RawValues(terms, key) ==
  LET term_list == terms_of_key(terms, key)
  IN  join(<<",", " ">>, [i \in 1..Len(term_list) |-> term_list[i].value])

\* C8: check_internal_consistency returns exactly one MULTIPLE_VALUES issue
\* (WARN) for a key exactly when the list has more than one term of the key
\* and these terms have more than one distinct comparison-normalized value;
\* the evidence lists the raw values of all terms of the key; the values go
\* to executed_evidence when the source is 'EXECUTED' and to
\* approved_evidence otherwise.  No other issue is returned.
C8_MultipleValues ==
  Checked =>
    LET terms == CheckedTerms
        out   == consistency.issues
    IN  /\ \A i \in 1..Len(out) : out[i].code = "MULTIPLE_VALUES"
        /\ \A key \in AllKeys :
             LET found == IssuesOf(out, "MULTIPLE_VALUES", key)
                 of_key == {i \in 1..Len(terms) : terms[i].key = key}
                 values == {_normalize_for_comparison(terms[i].value) : i \in of_key}
             IN  /\ IF Cardinality(of_key) > 1 /\ Cardinality(values) > 1
                      THEN Cardinality(found) = 1
                      ELSE found = {}
                 /\ \A i \in found :
                      /\ out[i].severity = "WARN"
                      /\ out[i].evidence =
                           <<"V","a","l","u","e","s"," ","f","o","u","n","d",":"," ">>
                             \o RawValues(terms, key)
                      /\ \A t \in of_key : Contains(out[i].evidence, terms[t].value)
                      /\ LET attributed == <<"V","a","l","u","e","s",":"," ">>
                                             \o RawValues(terms, key)
                         IN  IF consistency.source = "EXECUTED"
                               THEN out[i].executed_evidence = attributed
                               ELSE out[i].approved_evidence = attributed

\* An executed list with two borrower terms of different values and a third
\* term of another key: one issue, for the borrower.
C8_Witness ==
  /\ Checked
  /\ consistency.source = "EXECUTED"
  /\ Len(executed_terms) = 3
  /\ Len(terms_of_key(executed_terms, "borrower")) = 2
  /\ Len(consistency.issues) = 1
  /\ consistency.issues[1].related_term_key = "borrower"

EvidenceOf(terms) == {terms[i].evidence_text : i \in 1..Len(terms)}

\* C9: every issue returned by validate_terms and by
\* check_internal_consistency has non-empty evidence, approved_evidence and
\* executed_evidence, the latter two taken from the evidence of an input
\* term or being the 'Not found' placeholder of an absent term.
C9_EvidenceNonEmpty ==
  LET Backed(list) ==
        \A i \in 1..Len(list) :
          /\ list[i].evidence # <<>>
          /\ list[i].approved_evidence # <<>>
          /\ list[i].executed_evidence # <<>>
          /\ list[i].approved_evidence \in EvidenceOf(approved_terms) \cup {NotFound}
          /\ list[i].executed_evidence \in EvidenceOf(executed_terms) \cup {NotFound}
  IN  /\ Validated => Backed(issues.value)
      /\ Checked => Backed(consistency.issues)

(***************************************************************************)
(* Properties of normalize_term_value                                      *)
(***************************************************************************)
Normalized == normalized_value # Pending

\* The normalizer that the key selects cannot parse the value.
Unparsed(key, value) ==
  CASE key_class(key) = "date" -> ~date_parses(value)
    [] key_class(key) = "amount" -> normalize_currency_amount(value).number = None
    [] key_class(key) = "bps" ->
         LET result == normalize_basis_points(value)
         IN  result.raised = "" /\ result.value.number = None
    [] key_class(key) = "ratio" -> normalize_ratio(value).number = None
    [] OTHER -> FALSE

\* C10: normalize_term_value(key, value) never raises: for every key and
\* every value it returns a string, and whenever the date, currency-amount,
\* basis-points or ratio normalizer that the key selects cannot parse the
\* value, the string returned is the value without its surrounding
\* whitespace.
C10_Total ==
  Normalized =>
    /\ normalized_value.raised = ""
    /\ Unparsed(value_key, raw_value) => normalized_value.value = strip(raw_value)

(***************************************************************************)
(* Properties of the document-processing run                               *)
(***************************************************************************)
\* The uploaded file that the terms of a source are extracted from.
DocumentOf(source_type) ==
  IF source_type = "APPROVED" THEN documents.term_sheet ELSE documents.executed

\* The text that the extractor of a source has read from its file.
TextOf(source_type) == text_read(DocumentOf(source_type), pdfplumber)

\* C3: every ExtractedTerm row that a processing run has stored with a value
\* is backed by text found in the uploaded document of its source: the text
\* read from that document is not empty, and the borrower of the executed
\* document is stored only when the search for it matched in the text.
C3_TermsBackedByText ==
  \A i \in 1..Len(term_rows) :
    term_rows[i].value # <<>> =>
      /\ TextOf(term_rows[i].source) # <<>>
      /\ (term_rows[i].source = "EXECUTED" /\ term_rows[i].key = "borrower")
           => borrower_match(TextOf(term_rows[i].source))

\* The call has been repeated on its own result.
Renormalized == renormalized_value # Pending

\* C11: normalization is idempotent: for a key dispatched to the date,
\* currency-amount, basis-points or ratio normalizer, passing the string
\* returned by normalize_term_value(key, raw) to normalize_term_value with
\* the same key returns that string again; so a canonical value such as
\* 'USD 6,000,000,000', '2026-08-25', '100-150 bps' or '3.50x' is returned
\* unchanged.
C11_Idempotent ==
  (Renormalized /\ key_class(value_key) \in {"date", "amount", "bps", "ratio"})
    => renormalized_value = normalized_value

\* The keyword classes in the order of precedence of the claim.
KeywordClasses ==
  << [class |-> "date",    words |-> {<<"d","a","t","e">>}],
     [class |-> "amount",  words |-> {<<"a","m","o","u","n","t">>}],
     [class |-> "bps",     words |-> {<<"m","a","r","g","i","n">>, <<"s","p","r","e","a","d">>,
                                      <<"b","p","s">>}],
     [class |-> "ratio",   words |-> {<<"r","a","t","i","o">>, <<"l","e","v","e","r","a","g","e">>,
                                      <<"c","o","v","e","r","a","g","e">>}],
     [class |-> "boolean", words |-> {<<"p","r","e","s","e","n","t">>,
                                      <<"r","e","q","u","i","r","e","d">>}] >>

\* The classes with a keyword in the key, whatever the case of its letters.
ClassesIn(key) ==
  LET lowered == lower(key)
  IN  {i \in 1..Len(KeywordClasses) :
         \E word \in KeywordClasses[i].words : Contains(lowered, word)}

EarliestClass(key) ==
  LET classes == ClassesIn(key)
  IN  IF classes # {}
        THEN KeywordClasses[CHOOSE i \in classes : \A j \in classes : i <= j].class
        ELSE IF key = <<"c","u","r","r","e","n","c","y">> THEN "currency" ELSE "default"

\* What the normalizer of a class makes of a value.
ResultOfClass(class, value) ==
  CASE class = "date" -> normalize_date(value)
    [] class = "amount" -> Return(normalize_currency_amount(value).text)
    [] class = "bps" ->
         LET bps == normalize_basis_points(value)
         IN  IF bps.raised # "" THEN Raise(bps.raised) ELSE Return(bps.value.text)
    [] class = "ratio" -> Return(normalize_ratio(value).text)
    [] class = "boolean" -> Return(normalize_boolean(value))
    [] class = "currency" -> Return(currency_code(value))
    [] OTHER -> Return(strip(value))

MonthNumber(name) ==
  zfill2(str_of_nat(CHOOSE k \in 1..12 : fold(name) = MonthWords[k]))

\* The date that the claim assigns to an input of normalize_date: the
\* format is looked for in the input without its surrounding whitespace,
\* and an input in none of the formats stays as it is.
ExpectedDate(raw) ==
  IF IsIsoDate(strip(raw)) THEN strip(raw)
  ELSE IF MonthNameMatch(strip(raw)).matched
    THEN IsoOf(MonthNameMatch(strip(raw)).year,
               MonthNumber(MonthNameMatch(strip(raw)).month),
               zfill2(MonthNameMatch(strip(raw)).day))
  ELSE IF ShortFirstMatch(strip(raw), "/").matched
    THEN IsoOf(ShortFirstMatch(strip(raw), "/").year,
               zfill2(ShortFirstMatch(strip(raw), "/").first),
               zfill2(ShortFirstMatch(strip(raw), "/").second))
  ELSE IF ShortFirstMatch(strip(raw), "-").matched
    THEN IsoOf(ShortFirstMatch(strip(raw), "-").year,
               zfill2(ShortFirstMatch(strip(raw), "-").second),
               zfill2(ShortFirstMatch(strip(raw), "-").first))
  ELSE IF YearFirstMatch(strip(raw)).matched
    THEN IsoOf(YearFirstMatch(strip(raw)).year,
               zfill2(YearFirstMatch(strip(raw)).month),
               zfill2(YearFirstMatch(strip(raw)).day))
  ELSE raw

\* C13: normalize_date returns 'YYYY-MM-DD' with two-digit month and day
\* for every input in a recognized format: a long month-name date (with or
\* without comma, in any letter case), a slash date read month first, a
\* hyphenated date read day first, and YYYY/MM/DD; it returns an ISO input
\* as it is and an input in no recognized format unchanged.
C13_DateFormats ==
  (Normalized /\ key_class(value_key) = "date")
    => normalized_value = Return(ExpectedDate(raw_value))

(***************************************************************************)
(* Properties of normalize_basis_points                                    *)
(***************************************************************************)
BasisPointsDone == basis_points # Pending

\* The rules of normalize_basis_points in the order of the claim.
BpsRules == <<"range", "direct", "percent", "decimal">>

\* The rule finds what it looks for in the stripped value s.
RuleApplies(rule, s) ==
  CASE rule = "range"   -> \E pos \in 0..(Len(s) - 1) : RangeAt(s, pos)
    [] rule = "direct"  -> \E pos \in 0..(Len(s) - 1) : DirectAt(s, pos)
    [] rule = "percent" -> \E pos \in 0..(Len(s) - 1) : PercentAt(s, pos)
    [] rule = "decimal" -> IsDecimalFraction(s)

\* The first rule that applies, "none" when no rule does.
FirstRule(s) ==
  IF \E i \in 1..Len(BpsRules) : RuleApplies(BpsRules[i], s)
    THEN BpsRules[CHOOSE i \in 1..Len(BpsRules) :
                    /\ RuleApplies(BpsRules[i], s)
                    /\ \A j \in 1..(i - 1) : ~RuleApplies(BpsRules[j], s)]
    ELSE "none"

\* The number N of the leftmost 'N-M bps' of s and its number M.
RangeLow(s) == nat_of(RangeParts(s, search(RangeAt, s)).low)

RangeHigh(s) == nat_of(RangeParts(s, search(RangeAt, s)).high)

\* The pair that a rule on its own makes of s.
PairOfRule(rule, s) ==
  CASE rule = "range" ->
         [text   |-> str_of_nat(RangeLow(s)) \o <<"-">> \o str_of_nat(RangeHigh(s))
                       \o <<" ","b","p","s">>,
          number |-> Some(str_of_nat((RangeLow(s) + RangeHigh(s)) \div 2))]
    [] rule = "direct" ->
         [text   |-> parse_float(number_text(s, search(DirectAt, s))).value.int \o BpsSuffix,
          number |-> Some(parse_float(number_text(s, search(DirectAt, s))).value.int)]
    [] rule = "percent" ->
         [text   |-> times_100_int(parse_float(number_text(s, search(PercentAt, s))).value)
                       \o BpsSuffix,
          number |-> Some(times_100_int(parse_float(number_text(s, search(PercentAt, s))).value))]
    [] rule = "decimal" ->
         [text   |-> times_10000_int(parse_float(s).value) \o BpsSuffix,
          number |-> Some(times_10000_int(parse_float(s).value))]
    [] OTHER -> [text |-> s, number |-> None]

\* C14: normalize_basis_points applies its rules in the order range, direct
\* bps/bp mention, percentage, leading-zero decimal fraction, and the first
\* rule that matches decides the result; a range 'N-M bps' gives the string
\* 'N-M bps' and the number floor((N+M)/2), so '100-150 bps' gives
\* '100-150 bps' and 125.
C14_RuleOrder ==
  BasisPointsDone =>
    /\ basis_points = Return(PairOfRule(FirstRule(strip(raw_value)), strip(raw_value)))
    /\ raw_value = <<"1","0","0","-","1","5","0"," ","b","p","s">>
         => basis_points.value = [text   |-> raw_value,
                                  number |-> Some(<<"1","2","5">>)]

\* A value in which a range and a direct mention both match ('100-150 bps':
\* the direct mention alone would give '150 bps') was normalized, and the
\* range decided.
C14_Witness ==
  /\ BasisPointsDone
  /\ RuleApplies("range", strip(raw_value))
  /\ RuleApplies("direct", strip(raw_value))
  /\ basis_points.value # PairOfRule("direct", strip(raw_value))
  /\ basis_points.value.number = Some(<<"1","2","5">>)

\* The positive tokens of the claim.
PositiveTokens ==
  { <<"y","e","s">>, <<"t","r","u","e">>, <<"1">>, <<"p","r","e","s","e","n","t">>,
    <<"f","o","u","n","d">>, <<"i","n","c","l","u","d","e","d">>,
    <<"r","e","q","u","i","r","e","d">> }

\* C15: for every key dispatched to the boolean normalizer (a key with
\* 'present' or 'required' and no keyword of an earlier class) and every
\* value, normalize_term_value returns 'Yes' when the lower-cased trimmed
\* value contains one of the positive tokens and 'No' otherwise, so the
\* result is always exactly 'Yes' or 'No'.
C15_YesOrNo ==
  (Normalized /\ EarliestClass(value_key) = "boolean")
    => /\ normalized_value.raised = ""
       /\ normalized_value.value \in {<<"Y","e","s">>, <<"N","o">>}
       /\ normalized_value.value = <<"Y","e","s">>
            <=> \E token \in PositiveTokens : Contains(lower(strip(raw_value)), token)

\* No extraction method produces a page of the document of a source: the
\* extraction of its text raises.
Unreadable(source_type) ==
  extract_text_from_pdf(DocumentOf(source_type), pdfplumber).raised # ""

\* The sources that the review has a document of.
SourcesOf(docs) ==
  {"EXECUTED"} \cup (IF docs.term_sheet = None THEN {} ELSE {"APPROVED"})

\* C17: when no text-extraction method produces any page for a document,
\* the failure is raised to the caller of the extraction and reaches the
\* caller of the document-processing run: it is never caught and replaced by
\* empty text, so no term row of that document is stored and no run over
\* that document ends with the response of a successful run.
C17_FailureSurfaces ==
  /\ \A i \in 1..Len(term_rows) : ~Unreadable(term_rows[i].source)
  /\ \A r \in 1..MaxRequests :
       (requests[r].response # None /\ requests[r].response.value.status_code = 200)
         => \A source_type \in SourcesOf(documents) : ~Unreadable(source_type)

\* The request has its response.
Answered(r) == requests[r].pc = "done"

\* No processing run is under way and at least one has ended.
RunsEnded ==
  /\ \A r \in 1..MaxRequests : requests[r].pc \in {"process", "done"}
  /\ \E r \in 1..MaxRequests : Answered(r)

\* A step of the run of request r raised.
RunRaised(r) == Answered(r) /\ requests[r].response.value.status_code = 500

\* Every step of the run of request r succeeded.
RunSucceeded(r) == Answered(r) /\ requests[r].response.value.status_code = 200

\* C18: a document-processing run started by the process action ends in
\* exactly one terminal status, COMPLETE when every step succeeds and FAILED
\* when any step raises: once the runs have ended the review is not left in
\* status PROCESSING, and a review whose run failed exposes no terms or
\* issues stored by the steps before the failure.
C18_OneTerminalStatus ==
  RunsEnded =>
    /\ review.status \in {"COMPLETE", "FAILED"}
    /\ (\E r \in 1..MaxRequests : RunSucceeded(r)) => review.status = "COMPLETE"
    /\ (\A r \in 1..MaxRequests : Answered(r) => RunRaised(r))
         => review.status = "FAILED" /\ term_rows = <<>> /\ issue_rows = <<>>

(***************************************************************************)
(* Properties of verify_term_in_document                                   *)
(***************************************************************************)
Verified == verified # Pending

\* The results of the extraction that verify_term_in_document runs.
VerificationResults == extract_terms_from_text(pages, "VERIFICATION", rules)

\* The value found is the expected one, letter case and surrounding
\* whitespace aside.
ValueMatches(value, expected) == fold(strip(value)) = fold(strip(expected))

\* The results with the key and the expected value.
MatchingResults ==
  { i \in 1..Len(VerificationResults) :
      /\ VerificationResults[i].key = verify_key
      /\ ValueMatches(VerificationResults[i].value, expected_value) }

\* C19: verify_term_in_document(pages, term_key, expected_value) returns the
\* extraction result whose key is term_key and whose value matches
\* expected_value; it returns None when the document yields no term for
\* term_key, and when it yields one whose value does not match
\* expected_value.
C19_VerifiesValue ==
  Verified =>
    IF MatchingResults = {}
      THEN verified = None
      ELSE \E i \in MatchingResults : verified = Some(VerificationResults[i])

(***************************************************************************)
(* The choice of the match of a rule                                       *)
(***************************************************************************)
\* The highest confidence among the matches, which are in iteration order:
\* pattern by pattern and, within a pattern, by position.
TopConfidence(rule, matches) ==
  CHOOSE c \in {match_confidence(rule, matches[m]) : m \in 1..Len(matches)} :
    \A m \in 1..Len(matches) : match_confidence(rule, matches[m]) <= c

\* The matches with the highest confidence.
TopMatches(rule, matches) ==
  LET top == TopConfidence(rule, matches)
  IN  {m \in 1..Len(matches) : match_confidence(rule, matches[m]) = top}

\* The first of them in iteration order.
FirstTopMatch(rule, matches) ==
  LET top == TopMatches(rule, matches)
  IN  CHOOSE m \in top : \A other \in top : m <= other

\* The term of a rule built from the match at index m of its matches.
TermFrom(rule, matches, m) ==
  term_of(rule, source, combined_text(pages), page_positions(pages),
          [match |-> matches[m], confidence |-> match_confidence(rule, matches[m])])

\* The rule that emitted the term at index i: the first rule of the
\* catalog with the key of the term that emits one.
EmittingRule(i) ==
  LET producing == Producing(extracted[i].key, combined_text(pages))
  IN  rules[CHOOSE r \in producing : \A q \in producing : r <= q]

\* The matches of that rule, in iteration order.
MatchesOfTerm(i) == rule_matches(EmittingRule(i), combined_text(pages))

\* C20: for each rule, the term emitted by extract_terms_from_text is built
\* from the match with the highest confidence among all matches of all
\* patterns of the rule; of several matches with the highest confidence it
\* is the first in iteration order: earliest pattern in the rule's list and,
\* within a pattern, earliest position in the buffer.
C20_BestMatchFirst ==
  Returned =>
    LET text      == combined_text(pages)
        positions == page_positions(pages)
    IN  \A i \in 1..Len(extracted) :
          LET producing == Producing(extracted[i].key, text)
              rule      == rules[CHOOSE r \in producing : \A q \in producing : r <= q]
              matches   == rule_matches(rule, text)
              chosen    == matches[FirstTopMatch(rule, matches)]
          IN  extracted[i] =
                term_of(rule, source, text, positions,
                        [match |-> chosen, confidence |-> match_confidence(rule, chosen)])

\* A term was emitted for a rule with two matches of the highest
\* confidence that give different terms, and a term for a rule with a match
\* of lower confidence before the chosen one.
C20_Witness ==
  /\ Returned
  /\ \E i \in 1..Len(extracted) :
       \E m \in TopMatches(EmittingRule(i), MatchesOfTerm(i)) :
         TermFrom(EmittingRule(i), MatchesOfTerm(i), m) # extracted[i]
  /\ \E i \in 1..Len(extracted) : FirstTopMatch(EmittingRule(i), MatchesOfTerm(i)) > 1

\* The rules of the catalog whose key is not yet satisfied when the loop
\* reaches them and that have a match: no earlier rule of the same key has
\* a pattern matching the text.
FirstMatching(text) ==
  { r \in 1..Len(rules) :
      /\ RuleMatches(rules[r], text)
      /\ \A q \in 1..(r - 1) :
           rules[q].key = rules[r].key => ~RuleMatches(rules[q], text) }

\* The returned terms that carry the key and label of the rule and whose
\* raw_match is one of the rule's matches.
TermsOfRule(rule, text) ==
  { i \in 1..Len(extracted) :
      /\ extracted[i].key = rule.key
      /\ extracted[i].label = rule.label
      /\ \E m \in 1..Len(rule_matches(rule, text)) :
           rule_matches(rule, text)[m].group0 = extracted[i].raw_match }

\* C21: every rule that is reached with its key not yet satisfied and has
\* a pattern matching the text contributes exactly one term to the list
\* returned by extract_terms_from_text, whatever its confidence_base in
\* [0,1], also when every match has confidence 0.
C21_MatchEmitsTerm ==
  Returned =>
    LET text == combined_text(pages)
    IN  \A r \in FirstMatching(text) :
          Cardinality(TermsOfRule(rules[r], text)) = 1

\* The requested capture group is absent from the match, so that the value
\* of the term falls back to the whole-match text.
GroupAbsent(rule, match) == rule.extract_group \notin DOMAIN match.groups

\* The confidence that the claim assigns to a match, in hundredths.
ClaimedConfidence(rule, match) ==
  LET bonus   == IF Len(match.group0) > 50 THEN 5 ELSE 0
      penalty == IF GroupAbsent(rule, match) THEN 10 ELSE 0
      sum     == rule.confidence_base + bonus - penalty
  IN  IF sum < 0 THEN 0 ELSE IF sum > 100 THEN 100 ELSE sum

\* The matches of the emitting rule that the term at index i can come from.
MatchesGiving(i) ==
  { m \in 1..Len(MatchesOfTerm(i)) :
      /\ MatchesOfTerm(i)[m].group0 = extracted[i].raw_match
      /\ _find_page_for_position(page_positions(pages), MatchesOfTerm(i)[m].start)
           = extracted[i].page }

\* C22: the confidence of an emitted term is that of its match:
\* confidence_base, plus 0.05 for a matched span of more than 50 characters,
\* minus 0.10 when the requested capture group is absent from the match
\* (the value is then the whole-match text), clamped to [0,1]; the penalty
\* is there whenever the value is the whole-match fallback.
C22_Confidence ==
  Returned =>
    \A i \in 1..Len(extracted) :
      /\ extracted[i].confidence \in 0..100
      /\ \E m \in MatchesGiving(i) :
           extracted[i].confidence = ClaimedConfidence(EmittingRule(i), MatchesOfTerm(i)[m])

\* The page ranges holding an offset of the buffer.
RangesHolding(positions, offset) ==
  { p \in 1..Len(positions) :
      positions[p].start <= offset /\ offset < positions[p].end }

\* The page of an offset according to the claim: the page number of the one
\* range that holds it, page 1 when no range does.
PageOfOffset(positions, offset) ==
  LET holding == RangesHolding(positions, offset)
  IN  IF holding = {} THEN 1 ELSE positions[CHOOSE p \in holding : TRUE].page

\* The ranges are contiguous from 0, each is its page's text followed by the
\* two-character separator, and together they are the whole buffer.
RangesPartition(positions, text) ==
  /\ Len(positions) = Len(pages)
  /\ \A p \in 1..Len(positions) :
       /\ positions[p].start = (IF p = 1 THEN 0 ELSE positions[p - 1].end)
       /\ positions[p].end = positions[p].start + Len(pages[p].text) + 2
       /\ Slice(text, positions[p].start, positions[p].end)
            = pages[p].text \o <<"\n", "\n">>
       /\ positions[p].page = pages[p].page
  /\ Len(text) = (IF positions = <<>> THEN 0 ELSE positions[Len(positions)].end)

\* C23: the page ranges built by extract_terms_from_text are contiguous
\* half-open intervals from 0 that include each page's separator and cover
\* the buffer; every offset of the buffer lies in exactly one range and the
\* offset just past the buffer in none, where the page looked up is the
\* default 1; the page of every emitted term is the page of the range
\* holding the start offset of its match, also for a match that runs into
\* the next page, and its evidence_location is 'Page <page>'.
C23_PageOfMatch ==
  Returned =>
    LET text      == combined_text(pages)
        positions == page_positions(pages)
    IN  /\ RangesPartition(positions, text)
        /\ \A offset \in 0..Len(text) :
             /\ Cardinality(RangesHolding(positions, offset))
                  = (IF offset < Len(text) THEN 1 ELSE 0)
             /\ _find_page_for_position(positions, offset)
                  = PageOfOffset(positions, offset)
        /\ LET bests == { <<r, rule_best(rules[r], text).match>> : r \in 1..Len(rules) }
           IN  \A b \in bests :
                 (/\ b[2] # NoMatch
                  /\ \A q \in bests :
                       (q[1] < b[1] /\ rules[q[1]].key = rules[b[1]].key) => q[2] = NoMatch)
                   => \E i \in 1..Len(extracted) :
                        /\ extracted[i].key = rules[b[1]].key
                        /\ extracted[i].label = rules[b[1]].label
                        /\ extracted[i].raw_match = b[2].group0
                        /\ extracted[i].page = PageOfOffset(positions, b[2].start)
        /\ \A i \in 1..Len(extracted) :
             /\ extracted[i].page \in { pages[p].page : p \in 1..Len(pages) } \cup {1}
             /\ extracted[i].evidence_location
                  = <<"P", "a", "g", "e", " ">> \o str_of_nat(extracted[i].page)

\* A term whose match starts on the first page and ends on the second was
\* emitted and is attributed to page 1.
C23_Witness ==
  /\ Returned
  /\ Len(pages) = 2
  /\ \E i \in 1..Len(extracted) :
       LET chosen == MatchesOfTerm(i)[FirstTopMatch(EmittingRule(i), MatchesOfTerm(i))]
       IN  /\ chosen.start < page_positions(pages)[1].end
           /\ chosen.end > page_positions(pages)[2].start
           /\ extracted[i].page = 1

(***************************************************************************)
(* Properties of _values_match                                             *)
(***************************************************************************)
Matched == values_matched # Pending

\* What is left of a value once letter case, commas, '$' signs, the
\* occurrences of 'usd' and the surrounding whitespace are taken away.
WithoutNotation(value) ==
  strip(replace(replace(replace(lower(value), <<",">>, <<>>), <<"$">>, <<>>),
                <<"u", "s", "d">>, <<>>))

\* C24: under the 'exact' strategy two values compare as equal exactly
\* when they differ at most in letter case, surrounding whitespace, commas,
\* '$' signs and occurrences of 'usd', as 'USD 300,000,000' and
\* '$300,000,000' do; values that still differ without these compare as
\* not equal.
C24_ExactIgnoresNotation ==
  (Matched /\ comparison = "exact")
    => values_matched
         = Return(WithoutNotation(approved_value) = WithoutNotation(executed_value))

\* The maximal runs of digits and dots of a value, left to right.
RECURSIVE NumberRuns(_, _)
NumberRuns(s, pos) ==
  IF pos >= Len(s) THEN <<>>
  ELSE IF s[pos + 1] \in Digits \cup {"."}
    THEN LET n == NumRun(s, pos)
         IN  <<Slice(s, pos, pos + n)>> \o NumberRuns(s, pos + n)
    ELSE NumberRuns(s, pos + 1)

\* A run is a numeric token when it writes a number: it holds a digit and
\* at most one dot.
WritesNumber(run) ==
  /\ \E i \in 1..Len(run) : run[i] \in Digits
  /\ Cardinality({i \in 1..Len(run) : run[i] = "."}) <= 1

NumericTokens(value) == SelectSeq(NumberRuns(value, 0), WritesNumber)

\* The number written by a token, as numerator over 10^scale.
NumberOf(token) ==
  LET dot == {i \in 1..Len(token) : token[i] = "."}
  IN  [ numerator |-> nat_of(SelectSeq(token, LAMBDA c : c \in Digits)),
        scale     |-> IF dot = {} THEN 0 ELSE Len(token) - (CHOOSE i \in dot : TRUE) ]

\* |a - e| / max(a, 1) < 1/1000 for two such numbers.
RelativeDifferenceBelowTolerance(a, e) ==
  LET scale == Max(a.scale, e.scale)
      an    == a.numerator * Pow10(scale - a.scale)
      en    == e.numerator * Pow10(scale - e.scale)
      one   == Pow10(scale)
  IN  Abs(an - en) < (Max(an, one) + 999) \div 1000

\* C25: under the 'numeric' strategy two values match exactly when the
\* relative difference of their first numeric tokens, with max(value, 1)
\* as denominator, is below 0.1%; when a value holds no numeric token the
\* result is that of the 'exact' comparison; the call never raises.
C25_NumericTolerance ==
  (Matched /\ comparison = "numeric")
    => values_matched =
         IF NumericTokens(approved_value) = <<>> \/ NumericTokens(executed_value) = <<>>
           THEN Return(_normalize_for_comparison(approved_value)
                         = _normalize_for_comparison(executed_value))
           ELSE Return(RelativeDifferenceBelowTolerance(
                         NumberOf(NumericTokens(approved_value)[1]),
                         NumberOf(NumericTokens(executed_value)[1])))

\* The comparison has been made in both orders of the two values.
MatchedBothWays == values_matched # Pending /\ swapped_matched # Pending

\* C26: for the strategies exact, numeric, date and fuzzy the comparison
\* of two values gives the same result in both orders of the values, so
\* that exchanging the approved and the executed document does not change
\* whether the values of a key match.
C26_Symmetric ==
  (MatchedBothWays /\ comparison \in {"exact", "numeric", "date", "fuzzy"})
    => values_matched = swapped_matched

\* The formats that the documentation of normalize_date lists, each written
\* for 25 August 2026.
DocumentedDates ==
  { <<"A","u","g","u","s","t"," ","2","5",","," ","2","0","2","6">>,
    <<"A","u","g"," ","2","5"," ","2","0","2","6">>,
    <<"0","8","/","2","5","/","2","0","2","6">>,
    <<"2","5","/","0","8","/","2","0","2","6">>,
    <<"2","0","2","6","-","0","8","-","2","5">> }

\* C27: normalize_date turns each format listed in its documentation into
\* the ISO date of the same day: 'August 25, 2026', 'Aug 25 2026',
\* '08/25/2026' and '25/08/2026' become '2026-08-25', and '2026-08-25'
\* stays as it is.
C27_DocumentedFormats ==
  (Normalized /\ EarliestClass(value_key) = "date" /\ raw_value \in DocumentedDates)
    => normalized_value = Return(<<"2","0","2","6","-","0","8","-","2","5">>)

\* The EXECUTED term rows of the review with the given key.
ExecutedRowsOf(key) ==
  {i \in 1..Len(term_rows) : term_rows[i].source = "EXECUTED" /\ term_rows[i].key = key}

\* The EXTRACT audit events of the review.
ExtractEvents == {i \in 1..Len(audit_log) : audit_log[i].action = "EXTRACT"}

\* C28: whatever the interleaving of the process requests on a review, the
\* extraction runs at most once: the review has at most one EXECUTED term
\* per key and at most one EXTRACT audit event.
C28_ExtractsOnce ==
  /\ \A i \in 1..Len(term_rows) :
       term_rows[i].source = "EXECUTED" =>
         Cardinality(ExecutedRowsOf(term_rows[i].key)) = 1
  /\ Cardinality(ExtractEvents) <= 1

\* check_internal_consistency has been applied to the returned list.
ConsistencyChecked == Returned /\ consistency # Pending

\* C29: check_internal_consistency applied to the list returned by one
\* call of extract_terms_from_text returns the empty list, for every page
\* list and every catalog: the list holds no two terms with the same key,
\* so that no MULTIPLE_VALUES issue arises from a single extraction.
C29_SingleRunConsistent ==
  ConsistencyChecked =>
    /\ consistency.issues = <<>>
    /\ \A i, j \in 1..Len(extracted) : extracted[i].key = extracted[j].key => i = j

\* The catalog holds two rules of one key that find different values on the
\* text; the returned list was checked.
C29_Witness ==
  /\ ConsistencyChecked
  /\ extracted # <<>>
  /\ \E r, q \in 1..Len(rules) :
       /\ r < q
       /\ rules[r].key = rules[q].key
       /\ rule_best(rules[r], combined_text(pages)).match # NoMatch
       /\ rule_best(rules[q], combined_text(pages)).match # NoMatch
       /\ term_of(rules[r], source, combined_text(pages), page_positions(pages),
                  rule_best(rules[r], combined_text(pages))).value
            # term_of(rules[q], source, combined_text(pages), page_positions(pages),
                      rule_best(rules[q], combined_text(pages))).value

\* The returned terms with the key of a clause.
ClauseTerms(key) == {i \in 1..Len(extracted) : extracted[i].key = key}

\* C30: a term that extract_terms_from_text emits for the key
\* sanctions_clause_present or bail_in_clause_present has the value 'Yes'
\* whatever text was captured, and validate_terms with the extractor's
\* list as the executed terms reports one CLAUSE_PRESENT issue of severity
\* INFO for that clause and no MISSING_CLAUSE issue, whether or not the
\* approved terms require the clause.
C30_ClauseForcedYes ==
  Returned =>
    \A key \in {"sanctions_clause_present", "bail_in_clause_present"} :
      \A i \in ClauseTerms(key) :
        /\ extracted[i].value = <<"Y", "e", "s">>
        /\ Validated =>
             /\ issues.raised = ""
             /\ Cardinality(IssuesOf(issues.value, "CLAUSE_PRESENT", key)) = 1
             /\ \A n \in IssuesOf(issues.value, "CLAUSE_PRESENT", key) :
                  issues.value[n].severity = "INFO"
             /\ IssuesOf(issues.value, "MISSING_CLAUSE", key) = {}

\* A clause that the approved terms require was found on text whose
\* captured part is not 'Yes', and the list was validated.
C30_Witness ==
  /\ Returned
  /\ Validated
  /\ \E i \in ClauseTerms("sanctions_clause_present") :
       /\ extracted[i].raw_match # <<"Y", "e", "s">>
       /\ "sanctions_clause_required" \in KeysOf(approved_terms)
  /\ IssuesOf(issues.value, "CLAUSE_PRESENT", "sanctions_clause_present") # {}

====
